---- MODULE Spec2Model ----
(***************************************************************************)
(* Logical plan core of polars-lazy (polars-lazy/src/logical_plan/mod.rs): *)
(* the LogicalPlan tree, the wildcard/except rewriter, the schema          *)
(* derivations and the move-consuming LogicalPlanBuilder.                  *)
(*                                                                         *)
(* Values.  A Field is [name, dtype]; a Schema is a sequence of fields.    *)
(* An Expr is a record whose field k names the constructor and whose other *)
(* fields carry the constructor's fields under their Rust names.  A plan   *)
(* is a record whose field k names the LogicalPlan variant.  A panic of    *)
(* the Rust code unwinds the whole construction: operators that can panic  *)
(* return [panic |-> message, ...] with panic = "" when they return.       *)
(***************************************************************************)
EXTENDS Integers, Sequences, FiniteSets, TLC

VARIABLES
    plan,              \* LogicalPlanBuilder.0: the current root
    prev,              \* the root the last operation consumed (history)
    op,                \* name of the last builder operation (history)
    args,              \* arguments of the last builder operation (history)
    panic,             \* "" while construction runs, else the panic message
    ret,               \* what the last direct call of rewrite_projections returned
    debug_assertions   \* the build: TRUE when debug_assert! is compiled in

vars == <<plan, prev, op, args, panic, ret, debug_assertions>>

(***************************************************************************)
(* Bounds of the model                                                     *)
(***************************************************************************)
MaxDepth == 2      \* builder operations applied on top of the scan
MaxExprs == 2      \* longest expression list handed to the rewriter

(***************************************************************************)
(* Sequence helpers                                                        *)
(***************************************************************************)
Range(s) == {s[i] : i \in 1..Len(s)}

RECURSIVE Flatten(_)
Flatten(ss) == IF Len(ss) = 0 THEN <<>> ELSE Head(ss) \o Flatten(Tail(ss))

RECURSIVE SelectIdx(_, _, _)
\* the subsequence of s at the indices i >= from with i \in keep
SelectIdx(s, keep, from) ==
    IF from > Len(s) THEN <<>>
    ELSE (IF from \in keep THEN <<s[from]>> ELSE <<>>) \o SelectIdx(s, keep, from + 1)

Reversed(s) == [i \in 1..Len(s) |-> s[Len(s) + 1 - i]]

SeqsUpTo(S, n) == UNION {[1..m -> S] : m \in 0..n}

\* the body applied to a value computed once
With(v, Body(_)) == Body(v)

(***************************************************************************)
(* Fields and schemas                                                      *)
(***************************************************************************)
Field(name, dtype) == [name |-> name, dtype |-> dtype]

Names(schema) == [i \in 1..Len(schema) |-> schema[i].name]

\* Schema::index_of: the first index holding the name
index_of(schema, name) ==
    IF \E i \in 1..Len(schema) : schema[i].name = name
    THEN [ok |-> TRUE, val |-> CHOOSE i \in 1..Len(schema) :
                    /\ schema[i].name = name
                    /\ \A j \in 1..(i - 1) : schema[j].name # name]
    ELSE [ok |-> FALSE, val |-> 0]

\* Schema::field_with_name
field_with_name(schema, name) ==
    With(index_of(schema, name),
         LAMBDA idx : IF idx.ok THEN [ok |-> TRUE, val |-> schema[idx.val]]
                      ELSE [ok |-> FALSE, val |-> Field(name, "Null")])

(***************************************************************************)
(* Expressions                                                             *)
(***************************************************************************)
Column(name)      == [k |-> "Column", name |-> name]
Wildcard          == [k |-> "Wildcard"]
Literal(value)    == [k |-> "Literal", value |-> value]
Alias(e, name)    == [k |-> "Alias", expr |-> e, name |-> name]
BinaryExpr(l, o, r) == [k |-> "BinaryExpr", left |-> l, op |-> o, right |-> r]
Agg(kind, e)      == [k |-> "Agg", agg |-> kind, expr |-> e]
Except(e)         == [k |-> "Except", expr |-> e]
Filter(input, by) == [k |-> "Filter", input |-> input, by |-> by]
Take(e, idx)      == [k |-> "Take", expr |-> e, idx |-> idx]
SortBy(e, by, reverse) == [k |-> "SortBy", expr |-> e, by |-> by, reverse |-> reverse]
Window(function, partition_by, order_by) ==
    [k |-> "Window", function |-> function, partition_by |-> partition_by,
     order_by |-> order_by]
Unary(kind, e)    == [k |-> kind, expr |-> e]
IsNull(e)         == Unary("IsNull", e)
Cast(e, data_type) == [k |-> "Cast", expr |-> e, data_type |-> data_type]
Ternary(predicate, truthy, falsy) ==
    [k |-> "Ternary", predicate |-> predicate, truthy |-> truthy, falsy |-> falsy]

\* LiteralValue: the variant and the value
Lit(variant, v)   == Literal([variant |-> variant, v |-> v])

UnaryKinds == {"IsUnique", "Duplicated", "Reverse", "Explode", "IsNotNull", "IsNull",
               "Not"}
AggKinds == {"Mean", "Median", "Max", "Min", "Sum", "Count", "Last", "First",
             "NUnique", "AggGroups", "Quantile", "List", "Var", "Std"}

\* the value a panicking arm leaves in place of an expression: the call never
\* returns, and the caller tests for it with Unwinds
Unwind(msg) == [k |-> "!panic", msg |-> msg]

FilterWildcardMsg ==
    "Expression filter may not be used with wildcard, use LazyFrame::filter"
ExceptMsg == "Except expression should have column name"
UnwrapNoneMsg == "called Option::unwrap() on a None value"
UnwrapErrMsg == "called Result::unwrap() on an Err value"

\* LiteralValue::get_datatype
get_datatype(value) ==
    CASE value.variant = "Range"  -> value.v.data_type
      [] value.variant = "Series" -> value.v.dtype
      [] value.variant = "DateTime" -> "Date64"
      [] OTHER -> value.variant

\* the sub-expressions an expression's iterator pushes, in push order
Children(e) ==
    CASE e.k \in {"Column", "Wildcard", "Literal", "!panic"} -> <<>>
      [] e.k \in {"Alias", "Agg", "Cast", "Sort", "Except"} \cup UnaryKinds -> <<e.expr>>
      [] e.k = "BinaryExpr"     -> <<e.left, e.right>>
      [] e.k = "Take"           -> <<e.expr, e.idx>>
      [] e.k = "Filter"         -> <<e.input, e.by>>
      [] e.k = "SortBy"         -> <<e.expr, e.by>>
      [] e.k = "Ternary"        -> <<e.predicate, e.truthy, e.falsy>>
      [] e.k = "Function"       -> e.input
      [] e.k = "BinaryFunction" -> <<e.input_a, e.input_b>>
      [] e.k \in {"Shift", "Slice"} -> <<e.input>>
      [] e.k = "Window"         -> <<e.function>> \o e.partition_by \o e.order_by

RECURSIVE ExprIter(_)
\* the expression's iterator: every subterm, the expression first; a stack, so
\* the child pushed last is walked first
ExprIter(e) ==
    LET cs == Reversed(Children(e))
    IN  <<e>> \o Flatten([i \in 1..Len(cs) |-> ExprIter(cs[i])])

\* utils::has_expr
has_expr(e, matches(_)) == \E s \in Range(ExprIter(e)) : matches(s)

IsWildcard(e) == e.k = "Wildcard"
IsAggCount(e) == e.k = "Agg" /\ e.agg = "Count"
IsUnwind(e)   == e.k = "!panic"
Unwinds(e)    == has_expr(e, IsUnwind)

\* utils::expr_to_root_column_exprs: the Column and Wildcard leaves
expr_to_root_column_exprs(e) ==
    SelectSeq(ExprIter(e), LAMBDA s : s.k \in {"Column", "Wildcard"})

\* utils::expr_to_root_column_name
expr_to_root_column_name(e) ==
    With(expr_to_root_column_exprs(e),
         LAMBDA roots : IF Len(roots) = 1 /\ roots[1].k = "Column"
                        THEN [ok |-> TRUE, val |-> roots[1].name]
                        ELSE [ok |-> FALSE, val |-> ""])

RECURSIVE RenameRoots(_, _)
RenameRoots(e, new_name) ==
    CASE e.k \in {"Column", "Wildcard"} -> Column(new_name)
      [] e.k \in {"Literal", "!panic"} -> e
      [] e.k \in {"Alias", "Agg", "Cast", "Sort", "Except"} \cup UnaryKinds ->
            [e EXCEPT !.expr = RenameRoots(@, new_name)]
      [] e.k = "BinaryExpr" ->
            [e EXCEPT !.left = RenameRoots(@, new_name), !.right = RenameRoots(@, new_name)]
      [] e.k = "Take" ->
            [e EXCEPT !.expr = RenameRoots(@, new_name), !.idx = RenameRoots(@, new_name)]
      [] e.k = "Filter" ->
            [e EXCEPT !.input = RenameRoots(@, new_name), !.by = RenameRoots(@, new_name)]
      [] e.k = "SortBy" ->
            [e EXCEPT !.expr = RenameRoots(@, new_name), !.by = RenameRoots(@, new_name)]
      [] e.k = "Ternary" ->
            [e EXCEPT !.predicate = RenameRoots(@, new_name),
                      !.truthy = RenameRoots(@, new_name),
                      !.falsy = RenameRoots(@, new_name)]
      [] e.k = "Function" ->
            [e EXCEPT !.input = [i \in 1..Len(@) |-> RenameRoots(@[i], new_name)]]
      [] e.k = "BinaryFunction" ->
            [e EXCEPT !.input_a = RenameRoots(@, new_name),
                      !.input_b = RenameRoots(@, new_name)]
      [] e.k \in {"Shift", "Slice"} -> [e EXCEPT !.input = RenameRoots(@, new_name)]
      [] e.k = "Window" ->
            [e EXCEPT !.function = RenameRoots(@, new_name),
                      !.partition_by = [i \in 1..Len(@) |-> RenameRoots(@[i], new_name)],
                      !.order_by = [i \in 1..Len(@) |-> RenameRoots(@[i], new_name)]]

\* utils::rename_expr_root_name: the expression with its one root renamed; an
\* expression that has not exactly one root has no root to rename
rename_expr_root_name(e, new_name) ==
    IF Len(expr_to_root_column_exprs(e)) = 1
    THEN [ok |-> TRUE, val |-> RenameRoots(e, new_name)]
    ELSE [ok |-> FALSE, val |-> e]

\* utils::output_name: the name of the first Column or Alias the iterator meets
output_name(e) ==
    With(SelectSeq(ExprIter(e), LAMBDA s : s.k \in {"Column", "Alias"}),
         LAMBDA named : IF Len(named) > 0 THEN [ok |-> TRUE, val |-> named[1].name]
                        ELSE [ok |-> FALSE, val |-> ""])

(***************************************************************************)
(* The wildcard/except rewriter                                            *)
(***************************************************************************)
\* the substitution made at the root of the expression only
replace_wildcard_at_root(expr, column_name) ==
    IF expr.k = "Wildcard" THEN Column(column_name) ELSE expr

RECURSIVE replace_wildcard_with_column(_, _)
replace_wildcard_with_column(expr, column_name) ==
    CASE expr.k = "Window" ->
            [expr EXCEPT !.function = replace_wildcard_with_column(@, column_name)]
      [] expr.k \in {"IsUnique", "Duplicated", "Reverse", "Explode"} ->
            [expr EXCEPT !.expr = replace_wildcard_with_column(@, column_name)]
      [] expr.k = "Take" ->
            [expr EXCEPT !.expr = replace_wildcard_with_column(@, column_name)]
      [] expr.k = "Ternary" ->
            [expr EXCEPT !.predicate = replace_wildcard_with_column(@, column_name),
                         !.truthy = replace_wildcard_with_column(@, column_name),
                         !.falsy = replace_wildcard_with_column(@, column_name)]
      [] expr.k = "Function" ->
            [expr EXCEPT !.input =
                [i \in 1..Len(@) |-> replace_wildcard_with_column(@[i], column_name)]]
      [] expr.k = "BinaryFunction" ->
            [expr EXCEPT !.input_a = replace_wildcard_with_column(@, column_name),
                         !.input_b = replace_wildcard_with_column(@, column_name)]
      [] expr.k = "BinaryExpr" ->
            [expr EXCEPT !.left = replace_wildcard_with_column(@, column_name),
                         !.right = replace_wildcard_with_column(@, column_name)]
      [] expr.k = "Wildcard" -> Column(column_name)
      [] expr.k \in {"IsNotNull", "IsNull", "Not"} ->
            [expr EXCEPT !.expr = replace_wildcard_with_column(@, column_name)]
      [] expr.k = "Alias" ->
            [expr EXCEPT !.expr = replace_wildcard_with_column(@, column_name)]
      [] expr.k = "Filter" -> Unwind(FilterWildcardMsg)
      [] expr.k = "Agg" ->
            [expr EXCEPT !.expr = replace_wildcard_with_column(@, column_name)]
      [] expr.k = "Shift" ->
            [expr EXCEPT !.input = replace_wildcard_with_column(@, column_name)]
      [] expr.k = "Slice" ->
            [expr EXCEPT !.input = replace_wildcard_with_column(@, column_name)]
      [] expr.k = "SortBy" ->
            [expr EXCEPT !.expr = replace_wildcard_with_column(@, column_name)]
      [] expr.k = "Sort" ->
            [expr EXCEPT !.expr = replace_wildcard_with_column(@, column_name)]
      [] expr.k = "Cast" ->
            [expr EXCEPT !.expr = replace_wildcard_with_column(@, column_name)]
      [] expr.k = "Column" -> expr
      [] expr.k = "Literal" -> expr
      [] expr.k = "Except" -> expr

\* Vec::swap_remove: the element at idx is replaced by the last one
swap_remove(result, idx) ==
    IF idx = Len(result) THEN SubSeq(result, 1, Len(result) - 1)
    ELSE [i \in 1..(Len(result) - 1) |-> IF i = idx THEN result[Len(result)] ELSE result[i]]

\* Iterator::position over the root column names: 0 when there is none
position_of_root(result, name) ==
    With({i \in 1..Len(result) :
            expr_to_root_column_name(result[i]) = [ok |-> TRUE, val |-> name]},
         LAMBDA hits : IF hits = {} THEN 0 ELSE CHOOSE i \in hits : \A j \in hits : i <= j)

RECURSIVE remove_excluded(_, _)
\* the second loop of rewrite_projections: one swap_remove per excluded name
remove_excluded(result, exclude) ==
    IF Len(exclude) = 0 THEN result
    ELSE With(position_of_root(result, Head(exclude)),
              LAMBDA idx :
                 remove_excluded(IF idx # 0 THEN swap_remove(result, idx) ELSE result,
                                 Tail(exclude)))

\* the count-wildcard arm: one expression, its root renamed to the first field
count_wildcard(st, expr, schema) ==
    IF Len(schema) = 0 THEN [st EXCEPT !.panic = UnwrapNoneMsg]
    ELSE With(rename_expr_root_name(expr, schema[1].name),
              LAMBDA renamed :
                 IF ~renamed.ok THEN [st EXCEPT !.panic = UnwrapErrMsg]
                 ELSE [st EXCEPT !.result =
                          Append(@, IF renamed.val.k = "Alias" THEN renamed.val
                                    ELSE Alias(renamed.val, "count"))])

\* the wildcard arm stopping one field short of the end of the schema
expand_wildcard_short(st, expr, schema) ==
    With([i \in 1..(Len(schema) - 1) |-> replace_wildcard_with_column(expr, schema[i].name)],
         LAMBDA new : IF \E i \in 1..Len(new) : Unwinds(new[i])
                      THEN [st EXCEPT !.panic = FilterWildcardMsg]
                      ELSE [st EXCEPT !.result = @ \o new])

\* the wildcard arm: one copy of the expression per field of the schema
expand_wildcard(st, expr, schema) ==
    With([i \in 1..Len(schema) |-> replace_wildcard_with_column(expr, schema[i].name)],
         LAMBDA new : IF \E i \in 1..Len(new) : Unwinds(new[i])
                      THEN [st EXCEPT !.panic = FilterWildcardMsg]
                      ELSE [st EXCEPT !.result = @ \o new])

\* the pass with an Except over anything but a Column passed over
rewrite_step_lenient(st, expr, schema) ==
    IF expr.k = "Except" THEN
        IF expr.expr.k = "Column"
        THEN [st EXCEPT !.exclude = Append(@, expr.expr.name)]
        ELSE st
    ELSE IF has_expr(expr, IsWildcard) THEN
        IF has_expr(expr, IsAggCount) THEN count_wildcard(st, expr, schema)
        ELSE expand_wildcard(st, expr, schema)
    ELSE [st EXCEPT !.result = Append(@, expr)]

\* one pass of the first loop of rewrite_projections over expr, from the loop
\* state st = [result, exclude, panic]
rewrite_step(st, expr, schema) ==
    IF expr.k = "Except" THEN
        IF expr.expr.k = "Column"
        THEN [st EXCEPT !.exclude = Append(@, expr.expr.name)]
        ELSE [st EXCEPT !.panic = ExceptMsg]
    ELSE IF has_expr(expr, IsWildcard) THEN
        IF has_expr(expr, IsAggCount) THEN count_wildcard(st, expr, schema)
        ELSE expand_wildcard(st, expr, schema)
    ELSE [st EXCEPT !.result = Append(@, expr)]

RECURSIVE rewrite_loop(_, _, _)
rewrite_loop(st, exprs, schema) ==
    IF Len(exprs) = 0 \/ st.panic # "" THEN st
    ELSE rewrite_loop(rewrite_step(st, Head(exprs), schema), Tail(exprs), schema)

\* the list the first loop of rewrite_projections emits, before the removals
emitted(exprs, schema) ==
    rewrite_loop([result |-> <<>>, exclude |-> <<>>, panic |-> ""], exprs, schema)

\* rewrite_projections: [panic, val]
rewrite_projections(exprs, schema) ==
    With(emitted(exprs, schema),
         LAMBDA st : IF st.panic # "" THEN [panic |-> st.panic, val |-> <<>>]
                     ELSE [panic |-> "", val |-> remove_excluded(st.result, st.exclude)])

(***************************************************************************)
(* Field inference (Expr::to_field) and schema synthesis                   *)
(***************************************************************************)
ComparisonOps == {"Eq", "NotEq", "Lt", "LtEq", "Gt", "GtEq", "And", "Or"}

\* the suffix and the dtype an aggregation gives its field in a groupby
AggSuffix(kind) ==
    CASE kind = "Mean" -> "_mean"     [] kind = "Median" -> "_median"
      [] kind = "Max" -> "_max"       [] kind = "Min" -> "_min"
      [] kind = "Sum" -> "_sum"       [] kind = "Count" -> "_count"
      [] kind = "Last" -> "_last"     [] kind = "First" -> "_first"
      [] kind = "NUnique" -> "_n_unique" [] kind = "AggGroups" -> "_groups"
      [] kind = "Quantile" -> "_quantile" [] kind = "List" -> "_agg_list"
      [] kind = "Var" -> "_var"       [] kind = "Std" -> "_std"

AggDtype(kind, dtype) ==
    CASE kind \in {"Mean", "Median", "Var", "Std"} -> "Float64"
      [] kind \in {"Count", "NUnique"} -> "UInt32"
      [] kind \in {"AggGroups", "List"} -> "List"
      [] OTHER -> dtype

RECURSIVE to_field(_, _, _)
\* Expr::to_field(schema, ctxt): [ok, val]; ok = FALSE for a column the schema
\* lacks and for the shells (Wildcard, Except) that have no field
to_field(e, schema, ctxt) ==
    LET Inner(sub) == to_field(sub, schema, ctxt)
        Fail == [ok |-> FALSE, val |-> Field("", "Null")]
        Ok(f) == [ok |-> TRUE, val |-> f]
    IN  CASE e.k = "Column" -> field_with_name(schema, e.name)
          [] e.k = "Literal" -> Ok(Field("literal", get_datatype(e.value)))
          [] e.k = "Alias" ->
                IF Inner(e.expr).ok THEN Ok(Field(e.name, Inner(e.expr).val.dtype)) ELSE Fail
          [] e.k = "BinaryExpr" ->
                IF Inner(e.left).ok /\ Inner(e.right).ok
                THEN Ok(Field(Inner(e.left).val.name,
                              IF e.op \in ComparisonOps THEN "Boolean"
                              ELSE Inner(e.left).val.dtype))
                ELSE Fail
          [] e.k \in {"IsNull", "IsNotNull", "Not", "IsUnique", "Duplicated"} ->
                IF Inner(e.expr).ok THEN Ok(Field(Inner(e.expr).val.name, "Boolean")) ELSE Fail
          [] e.k \in {"Reverse", "Explode", "Sort", "SortBy", "Take"} -> Inner(e.expr)
          [] e.k \in {"Shift", "Slice", "Filter"} -> Inner(e.input)
          [] e.k = "Window" -> Inner(e.function)
          [] e.k = "Ternary" -> Inner(e.truthy)
          [] e.k = "Cast" ->
                IF Inner(e.expr).ok THEN Ok(Field(Inner(e.expr).val.name, e.data_type)) ELSE Fail
          [] e.k = "Agg" ->
                IF ~Inner(e.expr).ok THEN Fail
                ELSE LET f == Inner(e.expr).val
                     IN  Ok(Field(IF ctxt = "Aggregation" THEN f.name \o AggSuffix(e.agg)
                                  ELSE f.name,
                                  AggDtype(e.agg, f.dtype)))
          [] e.k = "Function" ->
                IF Len(e.input) > 0 /\ Inner(e.input[1]).ok
                THEN Ok(Field(Inner(e.input[1]).val.name, e.output_type)) ELSE Fail
          [] e.k = "BinaryFunction" -> Inner(e.input_a)
          [] e.k \in {"Wildcard", "Except", "!panic"} -> Fail

\* utils::expressions_to_schema: [panic, val]
expressions_to_schema(exprs, schema, ctxt) ==
    IF \A i \in 1..Len(exprs) : to_field(exprs[i], schema, ctxt).ok
    THEN [panic |-> "", val |-> [i \in 1..Len(exprs) |-> to_field(exprs[i], schema, ctxt).val]]
    ELSE [panic |-> UnwrapErrMsg, val |-> <<>>]

RECURSIVE merge_into(_, _)
\* Schema::try_merge, one field at a time: a field whose name the merged schema
\* holds is dropped when the dtypes agree and is an error when they differ
merge_into(merged, fields) ==
    IF Len(fields) = 0 \/ ~merged.ok THEN merged
    ELSE LET f == Head(fields)
             old == field_with_name(merged.val, f.name)
         IN  merge_into(IF ~old.ok THEN [merged EXCEPT !.val = Append(@, f)]
                        ELSE IF old.val.dtype = f.dtype THEN merged
                        ELSE [merged EXCEPT !.ok = FALSE],
                        Tail(fields))

\* Schema::try_merge(&[schema1, schema2])
try_merge(schema1, schema2) == merge_into([ok |-> TRUE, val |-> <<>>], schema1 \o schema2)

\* prepare_projection, given what rewrite_projections returned
prepare_rewritten(rw, schema) ==
    IF rw.panic # "" THEN [panic |-> rw.panic, exprs |-> <<>>, schema |-> <<>>]
    ELSE With(expressions_to_schema(rw.val, schema, "Default"),
              LAMBDA sc : IF sc.panic # ""
                          THEN [panic |-> sc.panic, exprs |-> <<>>, schema |-> <<>>]
                          ELSE [panic |-> "", exprs |-> rw.val, schema |-> sc.val])

\* prepare_projection: [panic, exprs, schema]
prepare_projection(exprs, schema) ==
    prepare_rewritten(rewrite_projections(exprs, schema), schema)

(***************************************************************************)
(* LogicalPlan                                                             *)
(***************************************************************************)
None == <<>>
Some(x) == <<x>>

DataFrameScan(df, schema) ==
    [k |-> "DataFrameScan", df |-> df, schema |-> schema, projection |-> None,
     selection |-> None]

\* the children of a node, left to right
Inputs(p) ==
    CASE p.k \in {"DataFrameScan", "CsvScan", "ParquetScan"} -> <<>>
      [] p.k = "Join" -> <<p.input_left, p.input_right>>
      [] OTHER -> <<p.input>>

RECURSIVE schema(_)
\* schema() with a Distinct node reporting only the columns of its subset
schema_of_subset(p) ==
    CASE p.k \in {"Cache", "Sort", "Explode", "Selection", "Slice"} -> schema(p.input)
      [] p.k = "Distinct" ->
            IF p.subset = None THEN schema(p.input)
            ELSE SelectSeq(schema(p.input), LAMBDA f : f.name \in Range(p.subset[1]))
      [] p.k = "Udf" -> IF p.schema # None THEN p.schema[1] ELSE schema(p.input)
      [] OTHER -> p.schema

\* LogicalPlan::schema
schema(p) ==
    CASE p.k = "Cache" -> schema(p.input)
      [] p.k = "Sort" -> schema(p.input)
      [] p.k = "Explode" -> schema(p.input)
      [] p.k = "ParquetScan" -> p.schema
      [] p.k = "DataFrameScan" -> p.schema
      [] p.k = "Selection" -> schema(p.input)
      [] p.k = "CsvScan" -> p.schema
      [] p.k = "Projection" -> p.schema
      [] p.k = "LocalProjection" -> p.schema
      [] p.k = "Aggregate" -> p.schema
      [] p.k = "Join" -> p.schema
      [] p.k = "HStack" -> p.schema
      [] p.k = "Distinct" -> schema(p.input)
      [] p.k = "Slice" -> schema(p.input)
      [] p.k = "Melt" -> p.schema
      [] p.k = "Udf" -> IF p.schema # None THEN p.schema[1] ELSE schema(p.input)

RECURSIVE Nodes(_)
\* every node of the tree, a node before its children
Nodes(p) == <<p>> \o Flatten([i \in 1..Len(Inputs(p)) |-> Nodes(Inputs(p)[i])])

\* P holds of every node of the tree
EveryNode(p, P(_)) == \A i \in 1..Len(Nodes(p)) : P(Nodes(p)[i])

RECURSIVE Depth(_)
Depth(p) ==
    IF Len(Inputs(p)) = 0 THEN 1
    ELSE 1 + (CHOOSE d \in {Depth(Inputs(p)[i]) : i \in 1..Len(Inputs(p))} :
                \A j \in 1..Len(Inputs(p)) : Depth(Inputs(p)[j]) <= d)

(***************************************************************************)
(* LogicalPlanBuilder: each operation maps the consumed root to            *)
(* [panic, plan], plan being the new root when panic = ""                  *)
(***************************************************************************)
Built(p) == [panic |-> "", plan |-> p]
Unbuilt == [k |-> "!unwound"]
Panicked(msg) == [panic |-> msg, plan |-> Unbuilt]

\* LogicalPlanBuilder::from_existing_df
from_existing_df(df) == DataFrameScan(df.id, df.schema)

\* cache handing the builder back as it is
cache_kept(self) == Built(self)

\* LogicalPlanBuilder::cache
cache(self) == Built([k |-> "Cache", input |-> self])

\* project with the select-all test left out: the node is added whatever the
\* rewritten list holds
project_as_always(variant, self, exprs) ==
    With(prepare_projection(exprs, schema(self)),
         LAMBDA pp :
            IF pp.panic # "" THEN Panicked(pp.panic)
            ELSE Built([k |-> variant, expr |-> pp.exprs, input |-> self,
                        schema |-> pp.schema]))

\* the shared body of project and project_local
project_as(variant, self, exprs) ==
    With(prepare_projection(exprs, schema(self)),
         LAMBDA pp :
            IF pp.panic # "" THEN Panicked(pp.panic)
            ELSE IF Len(pp.exprs) # 0
            THEN Built([k |-> variant, expr |-> pp.exprs, input |-> self,
                        schema |-> pp.schema])
            ELSE Built(self))

\* LogicalPlanBuilder::project
project(self, exprs) == project_as("Projection", self, exprs)

\* LogicalPlanBuilder::project_local
project_local(self, exprs) == project_as("LocalProjection", self, exprs)

\* when(col(name).is_null()).then(fill_value).otherwise(col(name)).alias(name)
fill_expr(name, fill_value) ==
    Alias(Ternary(IsNull(Column(name)), fill_value, Column(name)), name)

\* fill_none with the entries left without their alias
fill_none_unaliased(self, fill_value) ==
    project_local(self, [i \in 1..Len(schema(self)) |->
                            fill_expr(schema(self)[i].name, fill_value).expr])

\* LogicalPlanBuilder::fill_none
fill_none(self, fill_value) ==
    project_local(self, [i \in 1..Len(schema(self)) |->
                            fill_expr(schema(self)[i].name, fill_value)])

\* one pass of the loop of with_columns: index_of looks the name up in the input
\* schema
with_columns_put(new_fields, field, input_schema) ==
    With(index_of(input_schema, field.name),
         LAMBDA idx : IF idx.ok THEN [new_fields EXCEPT ![idx.val] = field]
                      ELSE Append(new_fields, field))

RECURSIVE with_columns_fields(_, _, _)
\* the loop of with_columns
with_columns_fields(new_fields, exprs, input_schema) ==
    IF Len(exprs) = 0 THEN new_fields
    ELSE with_columns_fields(
            with_columns_put(new_fields, to_field(Head(exprs), input_schema, "Default").val,
                             input_schema),
            Tail(exprs), input_schema)

\* with_columns caching the schema of its input: the new fields are lost
with_columns_stale(self, exprs) ==
    IF \E i \in 1..Len(exprs) : ~to_field(exprs[i], schema(self), "Default").ok
    THEN Panicked(UnwrapErrMsg)
    ELSE Built([k |-> "HStack", input |-> self, exprs |-> exprs, schema |-> schema(self)])

\* LogicalPlanBuilder::with_columns
with_columns(self, exprs) ==
    IF \E i \in 1..Len(exprs) : ~to_field(exprs[i], schema(self), "Default").ok
    THEN Panicked(UnwrapErrMsg)
    ELSE Built([k |-> "HStack", input |-> self, exprs |-> exprs,
                schema |-> with_columns_fields(schema(self), exprs, schema(self))])

RECURSIVE and_chain(_, _)
and_chain(acc, rest) ==
    IF Len(rest) = 0 THEN acc
    ELSE and_chain(BinaryExpr(acc, "And", Head(rest)), Tail(rest))

\* utils::combine_predicates_expr: [panic, val]
combine_predicates_expr(it) ==
    IF Len(it) = 0 THEN [panic |-> "an empty iterator was passed", val |-> Wildcard]
    ELSE [panic |-> "", val |-> and_chain(Head(it), Tail(it))]

\* the Selection over the combined predicate
filter_combined(self, it) ==
    IF \E i \in 1..Len(it) : Unwinds(it[i]) THEN Panicked(FilterWildcardMsg)
    ELSE With(combine_predicates_expr(it),
              LAMBDA combined :
                 IF combined.panic # "" THEN Panicked(combined.panic)
                 ELSE Built([k |-> "Selection", predicate |-> combined.val,
                             input |-> self]))

\* the Selection over the predicate as it is given
filter_as_given(self, predicate) ==
    Built([k |-> "Selection", predicate |-> predicate, input |-> self])

\* LogicalPlanBuilder::filter
filter(self, predicate) ==
    IF has_expr(predicate, IsWildcard)
    THEN filter_combined(self, [i \in 1..Len(schema(self)) |->
                replace_wildcard_with_column(predicate, schema(self)[i].name)])
    ELSE Built([k |-> "Selection", predicate |-> predicate, input |-> self])

\* the Aggregate node over the merged schema of the keys and the aggregations
groupby_merged(self, keys, aggs, apply, schema1, schema2) ==
    IF schema1.panic # "" THEN Panicked(schema1.panic)
    ELSE IF schema2.panic # "" THEN Panicked(schema2.panic)
    ELSE With(try_merge(schema1.val, schema2.val),
              LAMBDA merged :
                 IF ~merged.ok THEN Panicked(UnwrapErrMsg)
                 ELSE Built([k |-> "Aggregate", input |-> self, keys |-> keys,
                             aggs |-> aggs, schema |-> merged.val, apply |-> apply]))

\* groupby, given what rewrite_projections returned for the aggregations
groupby_rewritten(self, keys, rw, apply) ==
    IF rw.panic # "" THEN Panicked(rw.panic)
    ELSE groupby_merged(self, keys, rw.val, apply,
                        expressions_to_schema(keys, schema(self), "Default"),
                        expressions_to_schema(rw.val, schema(self), "Aggregation"))

\* LogicalPlanBuilder::groupby; debug is whether debug_assert! is compiled in
groupby(self, keys, aggs, apply, debug) ==
    IF debug /\ Len(keys) = 0 THEN Panicked("assertion failed: !keys.is_empty()")
    ELSE groupby_rewritten(self, keys, rewrite_projections(aggs, schema(self)), apply)

\* LogicalPlanBuilder::sort
sort(self, by_column, reverse) ==
    Built([k |-> "Sort", input |-> self, by_column |-> by_column, reverse |-> reverse])

\* LogicalPlanBuilder::explode
explode(self, columns) == Built([k |-> "Explode", input |-> self, columns |-> columns])

\* det_melt_schema dropping the first value variable only
det_melt_schema_first(value_vars, input_schema) ==
    IF Len(value_vars) = 0
    THEN [panic |-> "index out of bounds: the len is 0 but the index is 0", val |-> <<>>]
    ELSE With(field_with_name(input_schema, value_vars[1]),
              LAMBDA value :
                 IF ~value.ok THEN [panic |-> "field not found", val |-> <<>>]
                 ELSE [panic |-> "",
                       val |-> SelectSeq(input_schema,
                                         LAMBDA field : field.name # value_vars[1])
                               \o <<Field("variable", "Utf8"),
                                    Field("value", value.val.dtype)>>])

\* det_melt_schema looking every value variable up in the input schema
det_melt_schema_strict(value_vars, input_schema) ==
    IF Len(value_vars) = 0
    THEN [panic |-> "index out of bounds: the len is 0 but the index is 0", val |-> <<>>]
    ELSE IF \E v \in 1..Len(value_vars) : ~field_with_name(input_schema, value_vars[v]).ok
    THEN [panic |-> "field not found", val |-> <<>>]
    ELSE [panic |-> "",
          val |-> SelectSeq(input_schema, LAMBDA field : field.name \notin Range(value_vars))
                  \o <<Field("variable", "Utf8"),
                       Field("value", field_with_name(input_schema, value_vars[1]).val.dtype)>>]

\* det_melt_schema: [panic, val]
det_melt_schema(value_vars, input_schema) ==
    IF Len(value_vars) = 0
    THEN [panic |-> "index out of bounds: the len is 0 but the index is 0", val |-> <<>>]
    ELSE With(field_with_name(input_schema, value_vars[1]),
              LAMBDA value :
                 IF ~value.ok THEN [panic |-> "field not found", val |-> <<>>]
                 ELSE [panic |-> "",
                       val |-> SelectSeq(input_schema,
                                         LAMBDA field : field.name \notin Range(value_vars))
                               \o <<Field("variable", "Utf8"),
                                    Field("value", value.val.dtype)>>])

\* LogicalPlanBuilder::melt
melt(self, id_vars, value_vars) ==
    With(det_melt_schema(value_vars, schema(self)),
         LAMBDA sc : IF sc.panic # "" THEN Panicked(sc.panic)
                     ELSE Built([k |-> "Melt", input |-> self, id_vars |-> id_vars,
                                 value_vars |-> value_vars, schema |-> sc.val]))

\* LogicalPlanBuilder::drop_duplicates
drop_duplicates(self, maintain_order, subset) ==
    Built([k |-> "Distinct", input |-> self, maintain_order |-> maintain_order,
           subset |-> subset])

\* LogicalPlanBuilder::slice
slice(self, offset, len) ==
    Built([k |-> "Slice", input |-> self, offset |-> offset, len |-> len])

\* the loop of join without the test for the join keys: every right field is
\* pushed
join_every_right_field(fields, names, right_names) ==
    [i \in 1..Len(fields) |->
        IF fields[i].name \in names THEN Field(fields[i].name \o "_right", fields[i].dtype)
        ELSE fields[i]]

RECURSIVE join_right_fields(_, _, _)
\* the loop of join over schema_right: names are the left names, right_names
\* the output names of right_on
join_right_fields(fields, names, right_names) ==
    IF Len(fields) = 0 THEN <<>>
    ELSE LET f == Head(fields)
         IN  (IF f.name \notin right_names
              THEN IF f.name \in names THEN <<Field(f.name \o "_right", f.dtype)>>
                   ELSE <<f>>
              ELSE <<>>)
             \o join_right_fields(Tail(fields), names, right_names)

\* the schema join computes: [panic, val]
join_schema(schema_left, schema_right, right_on) ==
    IF \E i \in 1..Len(right_on) : ~output_name(right_on[i]).ok
    THEN [panic |-> "could not find name", val |-> <<>>]
    ELSE [panic |-> "",
          val |-> schema_left
                  \o join_right_fields(schema_right, Range(Names(schema_left)),
                                       {output_name(right_on[i]).val : i \in 1..Len(right_on)})]

\* LogicalPlanBuilder::join
join(self, other, how, left_on, right_on, allow_par, force_par) ==
    With(join_schema(schema(self), schema(other), right_on),
         LAMBDA sc :
            IF sc.panic # "" THEN Panicked(sc.panic)
            ELSE Built([k |-> "Join", input_left |-> self, input_right |-> other,
                        how |-> how, schema |-> sc.val, left_on |-> left_on,
                        right_on |-> right_on, allow_par |-> allow_par,
                        force_par |-> force_par]))

\* LogicalPlanBuilder::map
map(self, function, optimizations, udf_schema) ==
    Built([k |-> "Udf", input |-> self, function |-> function,
           predicate_pd |-> optimizations.predicate_pushdown,
           projection_pd |-> optimizations.projection_pushdown,
           schema |-> udf_schema])

(***************************************************************************)
(* Text: a String is a TLA+ string, one element per char; String::len and  *)
(* String::truncate count UTF-8 bytes                                      *)
(***************************************************************************)
\* the chars of the model's texts that take two bytes in UTF-8
TwoByteChars == {"π", "σ", "é"}

RECURSIVE byte_len(_)
\* String::len
byte_len(s) ==
    IF Len(s) = 0 THEN 0
    ELSE (IF SubSeq(s, 1, 1) \in TwoByteChars THEN 2 ELSE 1) + byte_len(SubSeq(s, 2, Len(s)))

RECURSIVE remove_char(_, _)
\* str::replace(ch, "")
remove_char(s, ch) ==
    IF Len(s) = 0 THEN ""
    ELSE (IF SubSeq(s, 1, 1) = ch THEN "" ELSE SubSeq(s, 1, 1))
         \o remove_char(SubSeq(s, 2, Len(s)), ch)

\* the prefixes of s that end on the byte new_len: none when new_len falls
\* inside a char
prefixes_of_bytes(s, new_len) ==
    {k \in 0..Len(s) : byte_len(SubSeq(s, 1, k)) = new_len}

\* String::truncate: [panic, val]; it panics when new_len is no char boundary
truncate(s, new_len) ==
    IF new_len > byte_len(s) THEN [panic |-> "", val |-> s]
    ELSE IF prefixes_of_bytes(s, new_len) = {}
    THEN [panic |-> "assertion failed: self.is_char_boundary(new_len)", val |-> ""]
    ELSE [panic |-> "", val |-> SubSeq(s, 1, CHOOSE k \in prefixes_of_bytes(s, new_len) : TRUE)]

RECURSIVE join_text(_, _)
\* the texts of a list with sep between them
join_text(texts, sep) ==
    IF Len(texts) = 0 THEN ""
    ELSE IF Len(texts) = 1 THEN texts[1]
    ELSE texts[1] \o sep \o join_text(Tail(texts), sep)

\* {:?} of a Vec: the {:?} of its elements between brackets
fmt_vec(texts) == "[" \o join_text(texts, ", ") \o "]"

\* {:?} of a String
fmt_str(s) == "\"" \o s \o "\""

\* {:?} of a LiteralValue
fmt_literal(value) ==
    value.variant \o "(" \o (IF value.variant = "Utf8" THEN fmt_str(value.v)
                             ELSE ToString(value.v)) \o ")"

RECURSIVE fmt_expr(_)
\* {:?} of an Expr
fmt_expr(e) ==
    CASE e.k = "Column"     -> e.name
      [] e.k = "Wildcard"   -> "*"
      [] e.k = "Literal"    -> fmt_literal(e.value)
      [] e.k = "Alias"      -> fmt_expr(e.expr) \o " AS " \o e.name
      [] e.k = "BinaryExpr" ->
            "[(" \o fmt_expr(e.left) \o ") " \o e.op \o " (" \o fmt_expr(e.right) \o ")]"
      [] e.k = "Not"        -> "NOT " \o fmt_expr(e.expr)
      [] e.k = "IsNull"     -> fmt_expr(e.expr) \o " IS NULL"
      [] e.k = "IsNotNull"  -> fmt_expr(e.expr) \o " IS NOT NULL"
      [] e.k = "IsUnique"   -> "UNIQUE " \o fmt_expr(e.expr)
      [] e.k = "Duplicated" -> "DUPLICATED " \o fmt_expr(e.expr)
      [] e.k = "Reverse"    -> "REVERSE " \o fmt_expr(e.expr)
      [] e.k = "Explode"    -> "EXPLODE " \o fmt_expr(e.expr)
      [] e.k = "Agg"        -> "AGG " \o e.agg \o " " \o fmt_expr(e.expr)
      [] e.k = "Except"     -> "EXCEPT " \o fmt_expr(e.expr)
      [] e.k = "Filter"     -> "FILTER " \o fmt_expr(e.input) \o " BY " \o fmt_expr(e.by)
      [] e.k = "Take"       -> "TAKE " \o fmt_expr(e.expr) \o " AT " \o fmt_expr(e.idx)
      [] e.k = "SortBy"     -> "SORT " \o fmt_expr(e.expr) \o " BY " \o fmt_expr(e.by)
      [] e.k = "Cast"       -> "CAST " \o fmt_expr(e.expr) \o " TO " \o e.data_type
      [] e.k = "Ternary"    ->
            "WHEN " \o fmt_expr(e.predicate) \o " " \o fmt_expr(e.truthy)
            \o " OTHERWISE " \o fmt_expr(e.falsy)
      [] e.k = "Window"     ->
            fmt_expr(e.function) \o " OVER "
            \o fmt_vec([i \in 1..Len(e.partition_by) |-> fmt_expr(e.partition_by[i])])

\* {:?} of a Vec<Expr>
fmt_exprs(exprs) == fmt_vec([i \in 1..Len(exprs) |-> fmt_expr(exprs[i])])

\* the clipping of fmt_predicate, given what truncate left
clipped(cut) ==
    IF cut.panic # "" THEN cut ELSE [panic |-> "", val |-> cut.val \o "..."]

\* the predicate text of fmt_predicate once the brackets are gone
fmt_stripped(pred_fmt, n) ==
    IF byte_len(pred_fmt) > n THEN clipped(truncate(pred_fmt, n))
    ELSE [panic |-> "", val |-> pred_fmt]

\* fmt_predicate: [panic, val]; predicate is an Option<&Expr>
fmt_predicate(predicate) ==
    IF predicate # None
    THEN fmt_stripped(remove_char(remove_char(fmt_expr(predicate[1]), "["), "]"), 25)
    ELSE [panic |-> "", val |-> "-"]

(***************************************************************************)
(* LogicalPlan::dot.  acc_str is the sequence of the texts written to it   *)
(***************************************************************************)
\* {:?} of the tuple (branch, id)
fmt_id(branch, id) == "(" \o ToString(branch) \o ", " \o ToString(id) \o ")"

\* utils::expr_to_root_column_names
expr_to_root_column_names(e) ==
    [i \in 1..Len(expr_to_root_column_exprs(e)) |->
        IF expr_to_root_column_exprs(e)[i].k = "Column"
        THEN expr_to_root_column_exprs(e)[i].name ELSE "*"]

\* what the HStack arm pushes for one expression
stack_name(e) ==
    IF e.k = "Alias" THEN " " \o e.name \o ","
    ELSE IF Len(expr_to_root_column_names(e)) = 0 THEN ""
    ELSE " " \o expr_to_root_column_names(e)[1] \o ","

RECURSIVE concat(_)
\* the texts pushed one after the other
concat(texts) == IF Len(texts) = 0 THEN "" ELSE Head(texts) \o concat(Tail(texts))

\* the n_columns of a scan arm: * without a column list
n_columns(columns) == IF columns = None THEN "*" ELSE ToString(Len(columns[1]))

\* the label of a scan arm, given the text of its predicate
scan_node(head, columns, schema_, pred, tail) ==
    IF pred.panic # "" THEN pred
    ELSE [panic |-> "",
          val |-> head \o "π " \o n_columns(columns) \o "/" \o ToString(Len(schema_))
                  \o ";\nσ " \o pred.val \o tail]

\* the label of a Selection, given the text of its predicate
selection_node(pred, branch, id) ==
    IF pred.panic # "" THEN pred
    ELSE [panic |-> "", val |-> "FILTER BY " \o pred.val \o " [" \o fmt_id(branch, id) \o "]"]

\* the current_node of each arm of dot: [panic, val]
current_node(p, branch, id) ==
    CASE p.k = "Selection" -> selection_node(fmt_predicate(Some(p.predicate)), branch, id)
      [] p.k = "CsvScan" ->
            scan_node("CSV SCAN " \o p.path \o ";\n", p.with_columns, p.schema,
                      fmt_predicate(p.predicate), "\n[" \o fmt_id(branch, id) \o "]")
      [] p.k = "DataFrameScan" ->
            scan_node("TABLE\n", p.projection, p.schema, fmt_predicate(p.selection),
                      "\n[" \o fmt_id(branch, id) \o "]")
      [] p.k = "ParquetScan" ->
            scan_node("PARQUET SCAN " \o p.path \o ";\n", p.with_columns, p.schema,
                      fmt_predicate(p.predicate), " [" \o fmt_id(branch, id) \o "]")
      [] OTHER -> [panic |-> "", val |->
            CASE p.k = "Cache" -> "CACHE [" \o fmt_id(branch, id) \o "]"
              [] p.k = "Projection" ->
                    "π " \o ToString(Len(p.expr)) \o "/" \o ToString(Len(schema(p.input)))
                    \o " [" \o fmt_id(branch, id) \o "]"
              [] p.k = "Sort" -> "SORT BY " \o fmt_exprs(p.by_column) \o " [" \o ToString(id) \o "]"
              [] p.k = "LocalProjection" ->
                    "LOCAL π " \o ToString(Len(p.expr)) \o "/" \o ToString(Len(schema(p.input)))
                    \o " [" \o fmt_id(branch, id) \o "]"
              [] p.k = "Explode" ->
                    "EXPLODE " \o fmt_vec([i \in 1..Len(p.columns) |-> fmt_str(p.columns[i])])
                    \o " [" \o fmt_id(branch, id) \o "]"
              [] p.k = "Melt" -> "MELT [" \o fmt_id(branch, id) \o "]"
              [] p.k = "Aggregate" ->
                    "AGG " \o fmt_exprs(p.aggs) \o " BY "
                    \o concat([i \in 1..Len(p.keys) |-> fmt_expr(p.keys[i])])
                    \o " [" \o fmt_id(branch, id) \o "]"
              [] p.k = "HStack" ->
                    "STACK" \o concat([i \in 1..Len(p.exprs) |-> stack_name(p.exprs[i])])
                    \o " [" \o fmt_id(branch, id) \o "]"
              [] p.k = "Slice" ->
                    "SLICE offset: " \o ToString(p.offset) \o "; len: " \o ToString(p.len)
                    \o " [" \o fmt_id(branch, id) \o "]"
              [] p.k = "Distinct" ->
                    "DISTINCT"
                    \o (IF p.subset = None THEN ""
                        ELSE " BY " \o concat([i \in 1..Len(p.subset[1]) |->
                                                  p.subset[1][i] \o ", "]))
                    \o " [" \o fmt_id(branch, id) \o "]"
              [] p.k = "Join" ->
                    "JOIN left " \o fmt_exprs(p.left_on) \o "; right: "
                    \o fmt_exprs(p.right_on) \o " [" \o ToString(id) \o "]"
              [] p.k = "Udf" -> "UDF [" \o fmt_id(branch, id) \o "]"]

\* write_dot writing the header whatever the id
write_dot_header(acc_str, prev_node, current, id) ==
    Append(acc_str, "graph  polars_query {\n")

\* LogicalPlan::write_dot: the header for id 0, an edge otherwise
write_dot(acc_str, prev_node, current, id) ==
    IF id = 0 THEN Append(acc_str, "graph  polars_query {\n")
    ELSE Append(acc_str, "\"" \o prev_node \o "\" -- \"" \o current \o "\"\n")

\* the arm of a scan: a scan at the root writes its label after the header
dot_scan(acc_str, prev_node, current, id) ==
    IF id = 0 THEN Append(write_dot(acc_str, prev_node, current, id), "\"" \o current \o "\"")
    ELSE write_dot(acc_str, prev_node, current, id)

RECURSIVE dot(_, _, _, _, _)
\* the arms of dot once current_node is formatted
dot_node(p, st, branch, id, prev_node, current) ==
    IF p.k \in {"CsvScan", "DataFrameScan", "ParquetScan"}
    THEN [st EXCEPT !.acc_str = dot_scan(@, prev_node, current, id)]
    ELSE IF p.k = "Join"
    THEN dot(p.input_right,
             dot(p.input_left, [st EXCEPT !.acc_str = write_dot(@, prev_node, current, id)],
                 branch + 10, id + 1, current),
             branch + 20, id + 1, current)
    ELSE dot(p.input, [st EXCEPT !.acc_str = write_dot(@, prev_node, current, id)],
             branch, id + 1, current)

\* LogicalPlan::dot from the state st = [panic, acc_str]; a panic unwinds every
\* call
dot(p, st, branch, id, prev_node) ==
    IF st.panic # "" THEN st
    ELSE With(current_node(p, branch, id),
              LAMBDA current :
                 IF current.panic # "" THEN [st EXCEPT !.panic = current.panic]
                 ELSE dot_node(p, st, branch, id, prev_node, current.val))

(***************************************************************************)
(* Builder steps.  Each action is one builder call on the current root;    *)
(* the arguments are drawn from the sets handed in, and the call is made   *)
(* only while the tree is at most `limit` nodes deep.                      *)
(***************************************************************************)
Step(name, a, result) ==
    /\ prev' = plan
    /\ op' = name
    /\ args' = a
    /\ panic' = result.panic
    /\ plan' = result.plan
    /\ UNCHANGED <<ret, debug_assertions>>

Running(limit) == panic = "" /\ Depth(plan) <= limit

CacheOp(limit) ==
    /\ Running(limit)
    /\ Step("cache", [none |-> TRUE], cache(plan))

Project(lists, limit) ==
    /\ Running(limit)
    /\ \E exprs \in lists : Step("project", [exprs |-> exprs], project(plan, exprs))

ProjectLocal(lists, limit) ==
    /\ Running(limit)
    /\ \E exprs \in lists :
          Step("project_local", [exprs |-> exprs], project_local(plan, exprs))

FillNone(values, limit) ==
    /\ Running(limit)
    /\ \E v \in values : Step("fill_none", [fill_value |-> v], fill_none(plan, v))

WithColumns(lists, limit) ==
    /\ Running(limit)
    /\ \E exprs \in lists :
          Step("with_columns", [exprs |-> exprs], with_columns(plan, exprs))

FilterOp(predicates, limit) ==
    /\ Running(limit)
    /\ \E predicate \in predicates :
          Step("filter", [predicate |-> predicate], filter(plan, predicate))

Groupby(keyLists, aggLists, limit) ==
    /\ Running(limit)
    /\ \E keys \in keyLists, aggs \in aggLists :
          Step("groupby", [keys |-> keys, aggs |-> aggs],
               groupby(plan, keys, aggs, None, debug_assertions))

SortOp(byLists, reverseLists, limit) ==
    /\ Running(limit)
    /\ \E by_column \in byLists, reverse \in reverseLists :
          Step("sort", [by_column |-> by_column, reverse |-> reverse],
               sort(plan, by_column, reverse))

ExplodeOp(columnLists, limit) ==
    /\ Running(limit)
    /\ \E columns \in columnLists :
          Step("explode", [columns |-> columns], explode(plan, columns))

Melt(idLists, valueLists, limit) ==
    /\ Running(limit)
    /\ \E id_vars \in idLists, value_vars \in valueLists :
          Step("melt", [id_vars |-> id_vars, value_vars |-> value_vars],
               melt(plan, id_vars, value_vars))

DropDuplicates(subsets, limit) ==
    /\ Running(limit)
    /\ \E maintain_order \in BOOLEAN, subset \in subsets :
          Step("drop_duplicates", [maintain_order |-> maintain_order, subset |-> subset],
               drop_duplicates(plan, maintain_order, subset))

SliceOp(offsets, lens, limit) ==
    /\ Running(limit)
    /\ \E offset \in offsets, len \in lens :
          Step("slice", [offset |-> offset, len |-> len], slice(plan, offset, len))

Join(others, onLists, limit) ==
    /\ Running(limit)
    /\ \E other \in others, right_on \in onLists :
          Step("join", [other |-> other, right_on |-> right_on],
               join(plan, other, "Left", right_on, right_on, TRUE, FALSE))

MapOp(schemas, limit) ==
    /\ Running(limit)
    /\ \E udf_schema \in schemas :
          Step("map", [schema |-> udf_schema],
               map(plan, "udf",
                   [predicate_pushdown |-> TRUE, projection_pushdown |-> FALSE],
                   udf_schema))

\* what a direct call of rewrite_projections leaves: a panic unwinds the caller
Returned(exprs, r) ==
    /\ ret' = Some(r)
    /\ args' = [exprs |-> exprs, schema |-> schema(plan)]
    /\ panic' = r.panic
    /\ plan' = IF r.panic = "" THEN plan ELSE Unbuilt

\* a direct call rewrite_projections(exprs, schema) on the schema of the root, as
\* project, project_local and groupby make it
RewriteProjections(lists, limit) ==
    /\ Running(limit)
    /\ \E exprs \in lists : Returned(exprs, rewrite_projections(exprs, schema(plan)))
    /\ op' = "rewrite_projections"
    /\ prev' = plan
    /\ UNCHANGED debug_assertions

\* what a call that reads the plan leaves in ret: a panic unwinds the caller
Read(name, a, r) ==
    /\ op' = name
    /\ args' = a
    /\ ret' = Some(r)
    /\ panic' = r.panic
    /\ prev' = plan
    /\ plan' = IF r.panic = "" THEN plan ELSE Unbuilt
    /\ UNCHANGED debug_assertions

\* plan.dot(&mut acc_str, (0, 0), "") on an empty acc_str
DotOp ==
    /\ panic = ""
    /\ ret = None
    /\ Read("dot", [none |-> TRUE], dot(plan, [panic |-> "", acc_str |-> <<>>], 0, 0, ""))

\* a direct call fmt_predicate(predicate)
FmtPredicate(predicates) ==
    /\ panic = ""
    /\ ret = None
    /\ \E predicate \in predicates :
          Read("fmt_predicate", [predicate |-> predicate], fmt_predicate(predicate))

\* what a call replace_wildcard_with_column(expr, column_name) leaves: the
\* expression, or the panic of the Filter arm
replaced(expr, column_name) ==
    With(replace_wildcard_with_column(expr, column_name),
         LAMBDA e : IF Unwinds(e) THEN [panic |-> FilterWildcardMsg, val |-> None]
                    ELSE [panic |-> "", val |-> Some(e)])

\* a direct call replace_wildcard_with_column(expr, column_name)
ReplaceWildcard(exprs, names) ==
    /\ panic = ""
    /\ ret = None
    /\ \E expr \in exprs, column_name \in names :
          Read("replace_wildcard_with_column",
               [expr |-> expr, column_name |-> column_name], replaced(expr, column_name))

\* the state LogicalPlanBuilder::from_existing_df(df) constructs, in either build
InitFrom(frames) ==
    /\ \E df \in frames :
          /\ plan = from_existing_df(df)
          /\ args = [df |-> df.id]
    /\ prev = Unbuilt
    /\ op = "from_existing_df"
    /\ panic = ""
    /\ ret = None
    /\ debug_assertions \in BOOLEAN

(***************************************************************************)
(* Spec: sequences of builder calls on the frames of the module's tests    *)
(***************************************************************************)
DfLeft  == [id |-> "left", schema |-> <<Field("days", "Int64"), Field("temp", "Float64"),
                                         Field("rain", "Float64")>>]
DfRight == [id |-> "right", schema |-> <<Field("days", "Int64"), Field("rain", "Float32")>>]
DfEmpty == [id |-> "empty", schema |-> <<>>]
Frames  == {DfLeft, DfEmpty}

Two == Lit("Int32", 2)
CountStar == Agg("Count", Wildcard)

ProjectLists == {<<>>, <<Column("temp")>>, <<Wildcard, Except(Column("rain"))>>,
                 <<CountStar>>}
LocalLists   == {<<>>, <<BinaryExpr(Wildcard, "Multiply", Two)>>}
FillValues   == {Lit("Int32", 0)}
StackLists   == {<<Alias(Two, "x")>>, <<Alias(Two, "x"), Alias(Lit("Float64", 1), "x")>>,
                 <<Alias(Lit("Utf8", "wet"), "rain")>>}
Predicates   == {BinaryExpr(Column("temp"), "Lt", Lit("Float64", 3)), IsNull(Wildcard)}
KeyLists     == {<<>>, <<Column("days")>>}
AggLists     == {<<Agg("Sum", Wildcard)>>}
ByLists      == {<<Column("days")>>}
ReverseLists == {<<FALSE>>, <<>>}
ColumnLists  == {<<"rain">>}
IdLists      == {<<"days">>}
ValueLists   == {<<"temp">>, <<"rain", "temp">>, <<>>}
Subsets      == {None, Some(<<"days">>)}
Offsets      == {-1}
Lens         == {2}
Others       == {from_existing_df(DfRight), cache(from_existing_df(DfRight)).plan}
OnLists      == {<<Column("days")>>, <<Two>>}
UdfSchemas   == {None, Some(<<Field("out", "Utf8")>>)}

Init == InitFrom(Frames)

Next ==
    \/ CacheOp(MaxDepth)
    \/ Project(ProjectLists, MaxDepth)
    \/ ProjectLocal(LocalLists, MaxDepth)
    \/ FillNone(FillValues, MaxDepth)
    \/ WithColumns(StackLists, MaxDepth)
    \/ FilterOp(Predicates, MaxDepth)
    \/ Groupby(KeyLists, AggLists, MaxDepth)
    \/ SortOp(ByLists, ReverseLists, MaxDepth)
    \/ ExplodeOp(ColumnLists, MaxDepth)
    \/ Melt(IdLists, ValueLists, MaxDepth)
    \/ DropDuplicates(Subsets, MaxDepth)
    \/ SliceOp(Offsets, Lens, MaxDepth)
    \/ Join(Others, OnLists, MaxDepth)
    \/ MapOp(UdfSchemas, MaxDepth)

Spec == Init /\ [][Next]_vars

(***************************************************************************)
(* Frames for the specifications of single operations                      *)
(***************************************************************************)
MaxFields == 3     \* most columns of a frame handed to the rewriter
MaxCols == 3       \* most columns of a frame handed to join, melt, with_columns
MaxVars == 2       \* longest value_vars list handed to melt
MaxExcept == 3     \* longest list of the except pool handed to the rewriter

\* the sequences over S without a repetition, at most n long
InjectiveSeqs(S, n) ==
    {q \in SeqsUpTo(S, n) : \A i, j \in 1..Len(q) : i # j => q[i] # q[j]}

\* the frame whose columns are named by the sequence cols, typed by dtypeOf
Frame(cols, dtypeOf) ==
    [id |-> cols, schema |-> [i \in 1..Len(cols) |-> Field(cols[i], dtypeOf[cols[i]])]]

(***************************************************************************)
(* SpecRewrite: rewrite_projections, project, project_local and groupby    *)
(* on the frames [], [a], [a,b], [a,b,c], ...                              *)
(***************************************************************************)
AllCols == <<"a", "b", "c", "d", "e", "f">>
AllDtypes == [a |-> "Int64", b |-> "Utf8", c |-> "Float64", d |-> "Boolean",
              e |-> "Int32", f |-> "UInt32"]
RwFrames == {Frame(SubSeq(AllCols, 1, n), AllDtypes) : n \in 0..MaxFields}

Gt(l, r) == BinaryExpr(l, "Gt", r)

RwExprs == {
    Wildcard,
    Column("b"),
    Column("zz"),
    Alias(Column("a"), "z"),
    BinaryExpr(Wildcard, "Multiply", Two),
    Agg("Sum", Wildcard),
    CountStar,
    Alias(CountStar, "n"),
    Agg("Count", Alias(Wildcard, "q")),
    BinaryExpr(CountStar, "Plus", Column("a")),
    Except(Column("b")),
    Except(Wildcard),
    Filter(Wildcard, Gt(Column("a"), Two)),
    Take(Column("a"), Filter(Wildcard, Gt(Column("a"), Two))),
    Take(Wildcard, Wildcard),
    Window(Wildcard, <<Wildcard>>, None),
    SortBy(Wildcard, Wildcard, FALSE) }

\* the expressions replace_wildcard_with_column is called on: those above and
\* wildcards further down, in the positions of each constructor
ReplaceExprs == RwExprs \cup {
    Ternary(IsNull(Wildcard), Two, Wildcard),
    Cast(Alias(Agg("Max", Wildcard), "m"), "Float64"),
    Take(Wildcard, Column("a")),
    Take(Column("a"), Wildcard),
    SortBy(Column("a"), Wildcard, TRUE),
    Window(Agg("Sum", Wildcard), <<Column("a")>>, Some(Wildcard)),
    Window(Agg("Sum", Column("b")), <<Column("a"), Wildcard>>, None),
    BinaryExpr(Take(Wildcard, IsNull(Wildcard)), "Plus", Wildcard),
    BinaryExpr(Wildcard, "Plus", Except(Wildcard)),
    Unary("Not", Filter(Column("a"), Wildcard)) }
ReplaceNames == {"a", "zz"}

\* the values fill_none is called with
FillExprs == {Two, Lit("Float64", 0), Column("a"), Column("zz"), Wildcard, CountStar,
              BinaryExpr(Column("a"), "Plus", Two)}

\* the predicates filter is called with
FilterPredicates == {
    Gt(Column("a"), Two),
    IsNull(Wildcard),
    Gt(Wildcard, Two),
    Gt(Take(Wildcard, Wildcard), Two),
    IsNull(Take(Column("a"), Wildcard)),
    IsNull(Filter(Column("a"), Gt(Column("a"), Two))),
    IsNull(Filter(Wildcard, Gt(Column("a"), Two))),
    Gt(Wildcard, Filter(Column("a"), Gt(Column("a"), Two))),
    IsNull(Take(Wildcard, Filter(Column("a"), Gt(Column("a"), Two)))) }

ExceptPool == {Wildcard, Column("b"), Alias(Column("b"), "z"), Except(Column("a")),
               Except(Column("b"))}

RwLists == SeqsUpTo(RwExprs, MaxExprs) \cup SeqsUpTo(ExceptPool, MaxExcept)

\* expressions with a Filter next to, above, below and beside a Wildcard
APositive == Gt(Column("a"), Two)
HardExprs == {
    Filter(Wildcard, APositive),
    Filter(Column("a"), IsNull(Wildcard)),
    BinaryExpr(Wildcard, "Plus", Filter(Column("a"), APositive)),
    BinaryExpr(Filter(Column("a"), APositive), "Plus", Wildcard),
    Take(Filter(Column("a"), APositive), Wildcard),
    Take(Wildcard, Filter(Column("a"), APositive)),
    SortBy(Wildcard, Filter(Column("a"), APositive), FALSE),
    Window(Agg("Sum", Wildcard), <<Filter(Column("a"), APositive)>>, None),
    Agg("Count", Filter(Wildcard, APositive)),
    Agg("Sum", Filter(Column("a"), APositive)) }
HardLists == {<<e>> : e \in HardExprs}
                \cup {<<Except(Wildcard)>>, <<Wildcard, Except(Two)>>,
                      <<Column("b"), Filter(Wildcard, APositive)>>,
                      <<Filter(Wildcard, APositive), Except(Wildcard)>>}
ExceptLists == SeqsUpTo(ExceptPool, MaxExprs) \cup HardLists

InitRewrite == InitFrom(RwFrames)

\* each behaviour makes its call on the frame it starts from
Fresh == op = "from_existing_df"

NextRewrite ==
    \/ Fresh /\ RewriteProjections(RwLists, 1)
    \/ Fresh /\ Project(ExceptLists, 1)
    \/ Fresh /\ ProjectLocal(ExceptLists, 1)
    \/ Fresh /\ Groupby({<<Column("a")>>}, ExceptLists, 1)
    \/ Fresh /\ ReplaceWildcard(ReplaceExprs, ReplaceNames)
    \/ Fresh /\ FilterOp(FilterPredicates \cup HardExprs, 1)
    \/ Fresh /\ FillNone(FillExprs, 1)

SpecRewrite == InitRewrite /\ [][NextRewrite]_vars

(***************************************************************************)
(* SpecJoin: one join of two frames                                        *)
(***************************************************************************)
JoinCols == {"days", "temp", "rain", "rain_right"}
LeftDtypes == [days |-> "Int64", temp |-> "Float64", rain |-> "Float64",
               rain_right |-> "Utf8"]
RightDtypes == [days |-> "Int64", temp |-> "Float32", rain |-> "Float32",
                rain_right |-> "Boolean"]
JoinLeft == {Frame(cols, LeftDtypes) : cols \in InjectiveSeqs(JoinCols, MaxCols)}
JoinRight == {from_existing_df(Frame(cols, RightDtypes)) :
                cols \in InjectiveSeqs(JoinCols, MaxCols)}
JoinOn == {<<>>, <<Column("days")>>, <<Column("rain")>>, <<Alias(Column("temp"), "rain")>>,
           <<Column("days"), Column("rain")>>, <<Two>>}

InitJoin == InitFrom(JoinLeft)
NextJoin == Join(JoinRight, JoinOn, 1)
SpecJoin == InitJoin /\ [][NextJoin]_vars

(***************************************************************************)
(* SpecMelt: one melt of a frame                                           *)
(***************************************************************************)
MeltCols == {"a", "b", "temp", "c"}
MeltDtypes == [a |-> "Int64", b |-> "Utf8", temp |-> "Float64", c |-> "Boolean"]
MeltFrames == {Frame(cols, MeltDtypes) : cols \in InjectiveSeqs(MeltCols, MaxCols)}
MeltIds == {<<>>, <<"a">>, <<"temp", "zz">>}
MeltValues == SeqsUpTo({"temp", "b", "zz"}, MaxVars)

InitMelt == InitFrom(MeltFrames)
NextMelt == Melt(MeltIds, MeltValues, 1)
SpecMelt == InitMelt /\ [][NextMelt]_vars

(***************************************************************************)
(* SpecHStack: one with_columns on a frame                                 *)
(***************************************************************************)
StackExprs == {Alias(Two, "x"), Alias(Lit("Float64", 1), "x"), Alias(Lit("Utf8", "s"), "b"),
               Alias(Column("a"), "temp"), Column("a"),
               BinaryExpr(Column("temp"), "Multiply", Two), Column("zz")}

InitHStack == InitFrom(MeltFrames)
NextHStack == WithColumns(SeqsUpTo(StackExprs, MaxExprs), 1)
SpecHStack == InitHStack /\ [][NextHStack]_vars

(***************************************************************************)
(* SpecDot: plans built on one frame, joined with plans built apart, and   *)
(* then rendered; fmt_predicate on predicates of several lengths           *)
(***************************************************************************)
LongAnd == BinaryExpr(Gt(Column("temp"), Two), "And", Gt(Column("rain"), Two))

DotPredicates == {Gt(Column("temp"), Two), LongAnd, IsNull(Column("ééééééééééééé"))}

FmtPredicates == {None} \cup {Some(e) : e \in DotPredicates \cup {
    IsNull(Column("a")),
    Column("abcdefghijklmnopqrstuvwxy"),
    Column("abcdefghijklmnopqrstuvwxyz"),
    Column("[abcdefghijklmnopqrstuvwxy]"),
    Column("température"),
    Column("ééééééééééééab"),
    Column("ééééééééééééé"),
    BinaryExpr(LongAnd, "Or", IsNull(Column("days"))) }}

DotScan == from_existing_df(DfRight)
DotOthers == {DotScan,
              sort(DotScan, <<Column("days")>>, <<FALSE>>).plan,
              join(DotScan, DotScan, "Inner", <<Column("days")>>, <<Column("days")>>,
                   TRUE, FALSE).plan}

\* nothing has been rendered yet
Unrendered == ret = None

InitDot == InitFrom({DfLeft})

NextDot ==
    \/ Unrendered /\ CacheOp(MaxDepth)
    \/ Unrendered /\ Project({<<Column("days")>>}, MaxDepth)
    \/ Unrendered /\ FilterOp(DotPredicates, MaxDepth)
    \/ Unrendered /\ SortOp({<<Column("days")>>}, {<<FALSE>>}, MaxDepth)
    \/ Unrendered /\ ExplodeOp({<<"rain">>}, MaxDepth)
    \/ Unrendered /\ Join(DotOthers, {<<Column("days")>>}, MaxDepth)
    \/ DotOp
    \/ Fresh /\ FmtPredicate(FmtPredicates)

SpecDot == InitDot /\ [][NextDot]_vars

(***************************************************************************)
(* Derivation rules, stated on the schemas rather than as the loops of the *)
(* builder                                                                 *)
(***************************************************************************)
OutputNames(exprs) == {output_name(exprs[i]).val : i \in 1..Len(exprs)}

\* every left field, then the right fields that are no join key, each renamed
\* with the suffix _right when a left field has its name
JoinRule(left, right, right_on) ==
    LET kept == SelectSeq(right, LAMBDA f : f.name \notin OutputNames(right_on))
    IN  left \o [i \in 1..Len(kept) |->
                    IF \E j \in 1..Len(left) : left[j].name = kept[i].name
                    THEN Field(kept[i].name \o "_right", kept[i].dtype)
                    ELSE kept[i]]

\* the input fields not named by value_vars, then variable and value
MeltRule(input, value_vars) ==
    LET first == CHOOSE i \in 1..Len(input) :
                    /\ input[i].name = value_vars[1]
                    /\ \A j \in 1..(i - 1) : input[j].name # value_vars[1]
    IN  SelectIdx(input, {i \in 1..Len(input) :
                            \A v \in 1..Len(value_vars) : value_vars[v] # input[i].name}, 1)
        \o <<Field("variable", "Utf8"), Field("value", input[first].dtype)>>

\* the rule with_columns runs: the field of an expression takes the place of the
\* first input field of its name (the last such expression wins), and the fields
\* whose name the input lacks follow in expression order
HStackRule(input, exprs) ==
    LET fields == [j \in 1..Len(exprs) |-> to_field(exprs[j], input, "Default").val]
        IsFirst(i) == \A h \in 1..(i - 1) : input[h].name # input[i].name
        Writers(i) == {j \in 1..Len(fields) : fields[j].name = input[i].name}
        Last(S) == CHOOSE j \in S : \A h \in S : h <= j
    IN  [i \in 1..Len(input) |->
            IF IsFirst(i) /\ Writers(i) # {} THEN fields[Last(Writers(i))] ELSE input[i]]
        \o SelectSeq(fields, LAMBDA f : \A i \in 1..Len(input) : input[i].name # f.name)

\* one field per expression, inferred against the input schema
ProjectionRule(input, exprs, ctxt) ==
    [i \in 1..Len(exprs) |-> to_field(exprs[i], input, ctxt).val]

\* the schema a caching node's rule gives from its children as they are now
Rederived(n) ==
    CASE n.k \in {"Projection", "LocalProjection"} ->
            ProjectionRule(schema(n.input), n.expr, "Default")
      [] n.k = "Aggregate" ->
            try_merge(ProjectionRule(schema(n.input), n.keys, "Default"),
                      ProjectionRule(schema(n.input), n.aggs, "Aggregation")).val
      [] n.k = "Join" -> JoinRule(schema(n.input_left), schema(n.input_right), n.right_on)
      [] n.k = "HStack" -> HStackRule(schema(n.input), n.exprs)
      [] n.k = "Melt" -> MeltRule(schema(n.input), n.value_vars)

CachingKinds == {"Projection", "LocalProjection", "Aggregate", "Join", "HStack", "Melt"}

(***************************************************************************)
(* Claims checked under Spec                                               *)
(***************************************************************************)

TransparentKinds == {"Selection", "Cache", "Distinct", "Sort", "Explode", "Slice"}
TransparentOps == {"filter", "cache", "drop_duplicates", "sort", "explode", "slice"}

RECURSIVE Under(_)
\* the plan below the run of transparent nodes at the root of p
Under(p) == IF p.k \in TransparentKinds THEN Under(p.input) ELSE p

\* the schema stored on a node that keeps one
Stored(p) == IF p.k = "Udf" /\ p.schema = None THEN schema(p.input) ELSE
             IF p.k = "Udf" THEN p.schema[1] ELSE p.schema

\* C2: filter, cache, drop_duplicates, sort, explode and slice, applied in any
\* sequence on top of a plan P, give a root whose schema() is the schema of P:
\* the same fields, names, dtypes and order.
C2_TransparentOpsKeepSchema ==
    panic = "" =>
        /\ schema(plan) = Stored(Under(plan))
        /\ op \in TransparentOps =>
              /\ plan.k \in TransparentKinds
              /\ plan.input = prev
              /\ schema(plan) = schema(prev)

\* C2 witness: two transparent operations in a row over a frame with columns
C2_Witness ==
    /\ panic = ""
    /\ op = "drop_duplicates"
    /\ plan.k = "Distinct"
    /\ plan.subset # None
    /\ plan.input.k = "Sort"
    /\ Len(schema(plan)) = 3

\* C10: every Aggregate node of a plan the builder reaches has a non-empty
\* keys list, and groupby with an empty keys list ends the construction.
C10_AggregateKeysNonEmpty ==
    /\ panic = "" => EveryNode(plan, LAMBDA n : n.k = "Aggregate" => Len(n.keys) > 0)
    /\ (op = "groupby" /\ Len(args.keys) = 0) => panic # ""

(***************************************************************************)
(* Claims checked under SpecJoin and SpecMelt                              *)
(***************************************************************************)

\* C3: when every expression of right_on has an output name, the schema join
\* caches is every left field in order, then the right fields in order, a
\* right field named by right_on left out, a right field with the name of a
\* left field given the suffix _right and its dtype, any other unchanged; the
\* frames [days, temp, rain] and [days, rain] joined on days give
\* [days, temp, rain, rain_right].
C3_JoinSchemaRule ==
    (op = "join" /\ \A i \in 1..Len(args.right_on) : output_name(args.right_on[i]).ok) =>
        /\ panic = ""
        /\ plan.k = "Join"
        /\ plan.schema = JoinRule(schema(prev), schema(args.other), args.right_on)
        /\ schema(plan) = plan.schema
        /\ (/\ Names(schema(prev)) = <<"days", "temp", "rain">>
            /\ Names(schema(args.other)) = <<"days", "rain">>
            /\ args.right_on = <<Column("days")>>)
           => Names(plan.schema) = <<"days", "temp", "rain", "rain_right">>

\* C3 witness: the join of [days, temp, rain] with [days, rain] on days
C3_Witness ==
    /\ op = "join"
    /\ panic = ""
    /\ Names(schema(prev)) = <<"days", "temp", "rain">>
    /\ Names(schema(args.other)) = <<"days", "rain">>
    /\ args.right_on = <<Column("days")>>
    /\ plan.schema = <<Field("days", "Int64"), Field("temp", "Float64"),
                       Field("rain", "Float64"), Field("rain_right", "Float32")>>

\* C4: for a non-empty value_vars whose first name is a field of the input,
\* the schema melt caches is the input fields not named by value_vars, in
\* input order, then (variable, Utf8) and (value, dtype of value_vars[0]);
\* id_vars has no part in it; melt([a], [temp]) on [a, b, temp] gives
\* [a, b, variable, value].
C4_MeltSchemaRule ==
    (/\ op = "melt"
     /\ Len(args.value_vars) > 0
     /\ args.value_vars[1] \in Range(Names(schema(prev)))) =>
        /\ panic = ""
        /\ plan.k = "Melt"
        /\ plan.schema = MeltRule(schema(prev), args.value_vars)
        /\ schema(plan) = plan.schema
        /\ \A ids \in MeltIds :
              melt(prev, ids, args.value_vars).plan.schema = plan.schema
        /\ (Names(schema(prev)) = <<"a", "b", "temp">> /\ args.value_vars = <<"temp">>)
           => plan.schema = <<Field("a", "Int64"), Field("b", "Utf8"),
                              Field("variable", "Utf8"), Field("value", "Float64")>>

\* C4 witness: melt(id_vars = [a], value_vars = [temp]) on [a, b, temp]
C4_Witness ==
    /\ op = "melt"
    /\ panic = ""
    /\ Names(schema(prev)) = <<"a", "b", "temp">>
    /\ args.id_vars = <<"a">>
    /\ args.value_vars = <<"temp">>
    /\ Names(plan.schema) = <<"a", "b", "variable", "value">>

(***************************************************************************)
(* Claims checked under SpecRewrite                                        *)
(***************************************************************************)
IsExcept(e) == e.k = "Except"
IsFilter(e) == e.k = "Filter"

\* no Except and no Agg(Count) subterm anywhere in the list
Plain(exprs) ==
    \A i \in 1..Len(exprs) : ~has_expr(exprs[i], IsExcept) /\ ~has_expr(exprs[i], IsAggCount)

\* the fields of an expression node that hold one expression, and those that
\* hold a list of them
ExprFields == {"expr", "left", "right", "input", "by", "idx", "function", "predicate",
               "truthy", "falsy", "input_a", "input_b"}
ListFields == {"partition_by", "order_by"}

RECURSIVE SubstAll(_, _)
\* e with every Wildcard in it, wherever it stands, turned into Column(name)
SubstAll(e, name) ==
    IF e.k = "Wildcard" THEN Column(name)
    ELSE [f \in DOMAIN e |->
            IF f \in ListFields \/ (e.k = "Function" /\ f = "input")
            THEN [i \in 1..Len(e[f]) |-> SubstAll(e[f][i], name)]
            ELSE IF f \in ExprFields THEN SubstAll(e[f], name)
            ELSE e[f]]

\* n copies of a wildcard-bearing expression, one per field in field order,
\* and any other expression as it is, in the order of the list
FanOut(exprs, fields) ==
    Flatten([i \in 1..Len(exprs) |->
                IF has_expr(exprs[i], IsWildcard)
                THEN [j \in 1..Len(fields) |-> SubstAll(exprs[i], fields[j].name)]
                ELSE <<exprs[i]>>])

\* the sub-expressions a node carries that the rewriter hands on as they are
Carried(e) ==
    CASE e.k = "Window" -> e.partition_by \o e.order_by
      [] e.k = "Take"   -> <<e.idx>>
      [] e.k = "SortBy" -> <<e.by>>
      [] OTHER          -> <<>>

\* e has no Filter subterm and no Wildcard under a Window's partition_by or
\* order_by, a Take's idx or a SortBy's by
Replaceable(e) ==
    /\ ~has_expr(e, IsFilter)
    /\ \A s \in Range(ExprIter(e)) :
          \A i \in 1..Len(Carried(s)) : ~has_expr(Carried(s)[i], IsWildcard)

\* C5 as stated: for a list with no Except and no Agg(Count) subterm,
\* rewrite_projections over fields f1..fn returns, in list order, n copies of
\* each wildcard-bearing expression, copy i with its Wildcard replaced by
\* Column(fi) and the rest kept, and every other expression unchanged.
C5_FanOutOfEveryWildcard ==
    (op = "rewrite_projections" /\ Plain(args.exprs)) =>
        /\ panic = ""
        /\ ret[1].val = FanOut(args.exprs, args.schema)

\* C5 amended: the same, for lists whose wildcard-bearing expressions have no
\* Filter subterm and no Wildcard under a Window's partition_by or order_by, a
\* Take's idx or a SortBy's by; [col(*) * lit(2)] on [a, b, c] gives the three
\* multiplications on a, b, c in that order.
C5_FanOutOfReplaceableWildcards ==
    (/\ op = "rewrite_projections"
     /\ Plain(args.exprs)
     /\ \A i \in 1..Len(args.exprs) :
           has_expr(args.exprs[i], IsWildcard) => Replaceable(args.exprs[i])) =>
        /\ panic = ""
        /\ ret[1].val = FanOut(args.exprs, args.schema)
        /\ (/\ args.exprs = <<BinaryExpr(Wildcard, "Multiply", Two)>>
            /\ Names(args.schema) = <<"a", "b", "c">>)
           => ret[1].val = <<BinaryExpr(Column("a"), "Multiply", Two),
                             BinaryExpr(Column("b"), "Multiply", Two),
                             BinaryExpr(Column("c"), "Multiply", Two)>>

\* C5 witness: a wildcard-bearing expression next to another one, fanned out
\* over three fields
C5_Witness ==
    /\ op = "rewrite_projections"
    /\ panic = ""
    /\ args.exprs = <<Column("zz"), BinaryExpr(Wildcard, "Multiply", Two)>>
    /\ Names(args.schema) = <<"a", "b", "c">>
    /\ Len(ret[1].val) = 4
    /\ ret[1].val[4] = BinaryExpr(Column("c"), "Multiply", Two)

CountWildcard(e) == has_expr(e, IsWildcard) /\ has_expr(e, IsAggCount)

\* C6: for every expression with a Wildcard subterm and an Agg(Count) subterm
\* rewrite_projections emits one expression, whatever the number of fields:
\* its root column is the first field of the schema, and it is wrapped in
\* Alias("count") unless its outermost constructor is an Alias, which is kept.
\* Stated on the lists every entry of which emits one expression.
C6_CountWildcardCollapse ==
    (/\ op = "rewrite_projections"
     /\ \A i \in 1..Len(args.exprs) :
           /\ args.exprs[i].k # "Except"
           /\ has_expr(args.exprs[i], IsWildcard) => CountWildcard(args.exprs[i])
     /\ \E i \in 1..Len(args.exprs) : CountWildcard(args.exprs[i])) =>
        /\ panic = ""
        /\ Len(ret[1].val) = Len(args.exprs)
        /\ \A i \in 1..Len(args.exprs) :
              CountWildcard(args.exprs[i]) =>
                 /\ expr_to_root_column_name(ret[1].val[i])
                      = [ok |-> TRUE, val |-> args.schema[1].name]
                 /\ ret[1].val[i].k = "Alias"
                 /\ ret[1].val[i].name = IF args.exprs[i].k = "Alias"
                                         THEN args.exprs[i].name ELSE "count"

\* the names the Except(Column(name)) entries of a list name
Excluded(exprs) ==
    {exprs[i].expr.name :
        i \in {j \in 1..Len(exprs) : exprs[j].k = "Except" /\ exprs[j].expr.k = "Column"}}

\* the root column names of the expressions of a list that have one
RootNames(exprs) ==
    {expr_to_root_column_name(exprs[i]).val :
        i \in {j \in 1..Len(exprs) : expr_to_root_column_name(exprs[j]).ok}}

\* C7: the list rewrite_projections returns holds no expression whose root
\* column name an Except(Column(name)) entry of the input names, wherever the
\* entry stands; [col(*), except(b)] on [a, b, c] leaves the roots {a, c}.
C7_ExcludedRootsAreGone ==
    (op = "rewrite_projections" /\ panic = "") =>
        /\ RootNames(ret[1].val) \cap Excluded(args.exprs) = {}
        /\ (/\ args.exprs = <<Wildcard, Except(Column("b"))>>
            /\ Names(args.schema) = <<"a", "b", "c">>)
           => RootNames(ret[1].val) = {"a", "c"} /\ Len(ret[1].val) = 2

\* C8: when the rewritten list is empty, as it is for project([]) and
\* project_local([]), project and project_local return the builder as it was:
\* the same root, no Projection or LocalProjection added, the same schema().
C8_EmptyProjectionIsIdentity ==
    (/\ op \in {"project", "project_local"}
     /\ rewrite_projections(args.exprs, schema(prev)) = [panic |-> "", val |-> <<>>]) =>
        /\ panic = ""
        /\ plan = prev
        /\ plan.k \notin {"Projection", "LocalProjection"}
        /\ schema(plan) = schema(prev)

\* C8 witness: a non-empty list that rewrites to the empty one, on a frame
\* with columns
C8_Witness ==
    /\ op = "project_local"
    /\ panic = ""
    /\ args.exprs = <<Except(Column("b"))>>
    /\ Len(schema(prev)) = 2
    /\ plan = prev

(***************************************************************************)
(* Claims checked under SpecHStack                                         *)
(***************************************************************************)

\* the field list with f put in place of the first field of its name, or at
\* the end when no field has the name
Upsert(fields, f) ==
    IF \E i \in 1..Len(fields) : fields[i].name = f.name
    THEN [i \in 1..Len(fields) |->
            IF fields[i].name = f.name /\ \A h \in 1..(i - 1) : fields[h].name # f.name
            THEN f ELSE fields[i]]
    ELSE Append(fields, f)

RECURSIVE UpsertAll(_, _)
UpsertAll(fields, new) ==
    IF Len(new) = 0 THEN fields ELSE UpsertAll(Upsert(fields, Head(new)), Tail(new))

\* C9: the schema with_columns caches on the HStack node is the input field
\* list with the inferred field of each expression upserted by name, in
\* expression order: put at the index of the field of that name when there is
\* one, appended otherwise, every other input field where and as it was.
C9_FieldsUpsertedInOrder ==
    (op = "with_columns" /\ panic = "") =>
        /\ plan.k = "HStack"
        /\ plan.schema = UpsertAll(schema(prev),
                                   ProjectionRule(schema(prev), args.exprs, "Default"))

(***************************************************************************)
(* Claims on the nodes the builder stores, checked under Spec              *)
(***************************************************************************)

\* C11: every Sort node of a plan the builder reaches has as many entries in
\* reverse as in by_column, whatever pair of lists sort was handed.
C11_SortListsSameLength ==
    panic = "" =>
        EveryNode(plan, LAMBDA n : n.k = "Sort" => Len(n.reverse) = Len(n.by_column))

(***************************************************************************)
(* Claims on the DOT rendering, checked under SpecDot                      *)
(***************************************************************************)
EndsWith(s, suffix) ==
    Len(s) >= Len(suffix) /\ SubSeq(s, Len(s) - Len(suffix) + 1, Len(s)) = suffix

RECURSIVE Walk(_, _, _, _)
\* the nodes of the tree in pre-order, each with the (branch, id) the traversal
\* gives it (left child branch + 10, right child branch + 20, id + 1 per
\* level), the label of its parent and its own label
Walk(p, branch, id, parent) ==
    LET label == current_node(p, branch, id).val
    IN  <<[kind |-> p.k, branch |-> branch, id |-> id, parent |-> parent, label |-> label]>>
        \o (IF p.k = "Join"
            THEN Walk(p.input_left, branch + 10, id + 1, label)
                 \o Walk(p.input_right, branch + 20, id + 1, label)
            ELSE IF Len(Inputs(p)) = 0 THEN <<>>
            ELSE Walk(p.input, branch, id + 1, label))

\* the nodes of the plan dot was called on
Rendered == Walk(prev, 0, 0, "")

\* C12: dot(acc, (0,0), "") gives two distinct nodes of the tree two distinct
\* labels, also in trees with joins nested in either subtree and with Sort or
\* Join nodes in both subtrees of a join (the suffix [(branch, id)] is there
\* to tell the nodes apart).
C12_LabelsAreDistinct ==
    (op = "dot" /\ panic = "") =>
        \A i, j \in 1..Len(Rendered) : i # j => Rendered[i].label # Rendered[j].label

\* the edge write_dot is said to write for a node below the root
EdgeOf(node) == "\"" \o node.parent \o "\" -- \"" \o node.label \o "\"\n"

\* the texts of a rendering that are edges
EdgesIn(acc_str) == SelectSeq(acc_str, LAMBDA t : EndsWith(t, "\"\n"))

\* C13: for a tree with n nodes dot(acc, (0,0), "") writes n-1 edges, one per
\* node below the root, each "<label of the parent>" -- "<label of the node>",
\* in pre-order (the left subtree of a Join before the right one); every
\* endpoint is the label of a node of the tree and a node at depth d carries
\* the id d.
C13_OneEdgePerNodeBelowTheRoot ==
    op = "dot" =>
        /\ panic = ""
        /\ Len(Rendered) = Len(Nodes(prev))
        /\ Len(EdgesIn(ret[1].acc_str)) = Len(Nodes(prev)) - 1
        /\ EdgesIn(ret[1].acc_str) = [i \in 1..(Len(Rendered) - 1) |-> EdgeOf(Rendered[i + 1])]
        /\ Head(ret[1].acc_str) = "graph  polars_query {\n"
        /\ \A i \in 2..Len(Rendered) :
              \E j \in 1..(i - 1) : /\ Rendered[j].label = Rendered[i].parent
                                    /\ Rendered[j].id + 1 = Rendered[i].id
        /\ \A i \in 1..Len(Rendered) :
              \/ EndsWith(Rendered[i].label, ", " \o ToString(Rendered[i].id) \o ")]")
              \/ EndsWith(Rendered[i].label, " [" \o ToString(Rendered[i].id) \o "]")

\* bracket-free text
NoBrackets(s) == \A i \in 1..Len(s) : SubSeq(s, i, i) \notin {"[", "]"}

\* s with the chars of a set left out
Without(s, chars) ==
    LET kept == SelectSeq([i \in 1..Len(s) |-> SubSeq(s, i, i)], LAMBDA ch : ch \notin chars)
    IN  concat(kept)

\* C20: the predicate text fmt_predicate gives has no [ and no ], is at most
\* 28 long, is the debug string without its brackets when that has at most
\* 25 characters and its first 25 characters followed by ... otherwise; an
\* absent predicate gives -.
C20_PredicateTextIsClipped ==
    op = "fmt_predicate" =>
        /\ panic = ""
        /\ IF args.predicate = None THEN ret[1].val = "-"
           ELSE LET stripped == Without(fmt_expr(args.predicate[1]), {"[", "]"})
                IN  /\ NoBrackets(ret[1].val)
                    /\ Len(ret[1].val) <= 28
                    /\ Len(stripped) <= 25 => ret[1].val = stripped
                    /\ Len(stripped) > 25 => ret[1].val = SubSeq(stripped, 1, 25) \o "..."

(***************************************************************************)
(* replace_wildcard_with_column, checked under SpecRewrite                 *)
(***************************************************************************)
\* C14 as stated: for every expression e and column name c, the expression
\* replace_wildcard_with_column(e, c) returns has no Wildcard subterm
\* anywhere: every Wildcard of e is replaced by Column(c), those in a Window's
\* partition_by/order_by, a Take's idx and a SortBy's by included.
C14_NoWildcardIsLeft ==
    (op = "replace_wildcard_with_column" /\ panic = "") =>
        /\ ~has_expr(ret[1].val[1], IsWildcard)
        /\ ret[1].val[1] = SubstAll(args.expr, args.column_name)

\* the sub-expressions of a node that the rewriter returns as they are
Kept(e) == IF e.k = "Except" THEN <<e.expr>> ELSE Carried(e)

\* the fields of a node holding them, and the other sub-expressions of the node
KeptFields(e) ==
    CASE e.k = "Window" -> {"partition_by", "order_by"}
      [] e.k = "Take"   -> {"idx"}
      [] e.k = "SortBy" -> {"by"}
      [] e.k = "Except" -> {"expr"}
      [] OTHER          -> {}
Walked(e) ==
    CASE e.k = "Window"            -> <<e.function>>
      [] e.k \in {"Take", "SortBy"} -> <<e.expr>>
      [] e.k = "Except"            -> <<>>
      [] OTHER                     -> Children(e)

RECURSIVE Outside(_)
\* the subterms of e that are not under a kept position
Outside(e) ==
    LET cs == Walked(e)
    IN  <<e>> \o Flatten([i \in 1..Len(cs) |-> Outside(cs[i])])

RECURSIVE Blank(_)
\* e with every kept position emptied
Blank(e) ==
    [f \in DOMAIN e |->
        IF f \in ListFields THEN <<>>
        ELSE IF f \in KeptFields(e) THEN Literal("kept")
        ELSE IF e.k = "Function" /\ f = "input" THEN [i \in 1..Len(e[f]) |-> Blank(e[f][i])]
        ELSE IF f \in ExprFields THEN Blank(e[f])
        ELSE e[f]]

RECURSIVE KeptParts(_)
\* the kept positions of e, in the order the iterator meets their nodes
KeptParts(e) ==
    LET os == Outside(e) IN Flatten([i \in 1..Len(os) |-> Kept(os[i])])

\* C14 amended: the expression replace_wildcard_with_column(e, c) returns has
\* no Wildcard subterm outside a Window's partition_by/order_by, a Take's idx,
\* a SortBy's by and the inside of an Except: every Wildcard of e outside
\* those positions is replaced by Column(c), and those positions are returned
\* as they are.
C14_NoWildcardIsLeftOutsideKeptPositions ==
    (op = "replace_wildcard_with_column" /\ panic = "") =>
        /\ \A s \in Range(Outside(ret[1].val[1])) : s.k # "Wildcard"
        /\ ~has_expr(Blank(ret[1].val[1]), IsWildcard)
        /\ Blank(ret[1].val[1]) = SubstAll(Blank(args.expr), args.column_name)
        /\ KeptParts(ret[1].val[1]) = KeptParts(args.expr)

\* C14 witness: wildcards on both sides of a Take under a sum, the one in idx
\* returned as it is
C14_Witness ==
    /\ op = "replace_wildcard_with_column"
    /\ panic = ""
    /\ args.expr = BinaryExpr(Take(Wildcard, IsNull(Wildcard)), "Plus", Wildcard)
    /\ args.column_name = "zz"
    /\ ret[1].val[1] = BinaryExpr(Take(Column("zz"), IsNull(Wildcard)), "Plus", Column("zz"))

(***************************************************************************)
(* filter, checked under SpecRewrite                                       *)
(***************************************************************************)
RECURSIVE Conjuncts(_, _)
\* the n operands of a left-nested chain of n - 1 conjunctions
Conjuncts(e, n) ==
    IF n <= 1 THEN <<e>> ELSE Append(Conjuncts(e.left, n - 1), e.right)

RECURSIVE IsAndChain(_, _)
IsAndChain(e, n) ==
    n <= 1 \/ (e.k = "BinaryExpr" /\ e.op = "And" /\ IsAndChain(e.left, n - 1))

IsSelectionOver(p, input) == p.k = "Selection" /\ p.input = input

\* C15 as stated: filter(predicate) always wraps the previous root in a
\* Selection; a predicate without a Wildcard is stored unchanged, and one with
\* a Wildcard is stored as the AND-combination of one copy per field of the
\* input schema, in field order, with the Wildcard replaced by the field's
\* column.
C15_FilterAlwaysWraps ==
    op = "filter" =>
        /\ panic = ""
        /\ IsSelectionOver(plan, prev)
        /\ ~has_expr(args.predicate, IsWildcard) => plan.predicate = args.predicate
        /\ has_expr(args.predicate, IsWildcard) =>
              /\ Len(schema(prev)) >= 1
              /\ IsAndChain(plan.predicate, Len(schema(prev)))
              /\ Conjuncts(plan.predicate, Len(schema(prev)))
                    = [i \in 1..Len(schema(prev)) |->
                          SubstAll(args.predicate, schema(prev)[i].name)]

\* copy is e with every Wildcard outside the kept positions turned into
\* Column(name), and the kept positions as they are in e
CopyFor(copy, e, name) ==
    /\ Blank(copy) = SubstAll(Blank(e), name)
    /\ KeptParts(copy) = KeptParts(e)

\* C15 amended: whenever filter(predicate) returns, it has wrapped the previous
\* root in a Selection; a predicate without a Wildcard always returns and is
\* stored unchanged; a predicate with a Wildcard and without a Filter subterm,
\* on a schema of at least one field, returns and is stored as the
\* AND-combination of one copy per field of the input schema, in field order,
\* with every Wildcard outside a Window's partition_by/order_by, a Take's idx,
\* a SortBy's by and an Except replaced by the field's column.
C15_FilterWrapsWhenItReturns ==
    op = "filter" =>
        /\ panic = "" => IsSelectionOver(plan, prev)
        /\ ~has_expr(args.predicate, IsWildcard) =>
              panic = "" /\ plan.predicate = args.predicate
        /\ (/\ has_expr(args.predicate, IsWildcard)
            /\ ~has_expr(args.predicate, IsFilter)
            /\ Len(schema(prev)) >= 1) =>
              /\ panic = ""
              /\ IsAndChain(plan.predicate, Len(schema(prev)))
              /\ \A i \in 1..Len(schema(prev)) :
                    CopyFor(Conjuncts(plan.predicate, Len(schema(prev)))[i],
                            args.predicate, schema(prev)[i].name)

\* C15 witness: a wildcard predicate over three fields
C15_Witness ==
    /\ op = "filter"
    /\ panic = ""
    /\ args.predicate = Gt(Wildcard, Two)
    /\ Names(schema(prev)) = <<"a", "b", "c">>
    /\ plan.predicate = BinaryExpr(BinaryExpr(Gt(Column("a"), Two), "And",
                                               Gt(Column("b"), Two)),
                                    "And", Gt(Column("c"), Two))

(***************************************************************************)
(* fill_none, checked under SpecRewrite                                    *)
(***************************************************************************)
\* when(col(c).is_null()).then(value).otherwise(col(c)) aliased to c, for the
\* fields c of the schema in their order
FillEntries(fields, value) ==
    [i \in 1..Len(fields) |->
        [k |-> "Alias", name |-> fields[i].name,
         expr |-> [k |-> "Ternary",
                   predicate |-> [k |-> "IsNull", expr |-> Column(fields[i].name)],
                   truthy |-> value,
                   falsy |-> Column(fields[i].name)]]]

IsFillOver(p, input, value) ==
    /\ p.k = "LocalProjection"
    /\ p.input = input
    /\ p.expr = FillEntries(schema(input), value)
    /\ Names(schema(p)) = Names(schema(input))

\* C16 as stated: for every plan, one of a zero-field schema included,
\* fill_none(value) produces a root LocalProjection over the previous root
\* with one entry per field c of the input schema, in field order, each
\* when(col(c).is_null()).then(value).otherwise(col(c)) aliased to c, so that
\* the output field names are the input field names in their order.
C16_FillNoneOnEveryPlan ==
    op = "fill_none" => panic = "" /\ IsFillOver(plan, prev, args.fill_value)

\* C16 amended: for every plan whose schema has at least one field and every
\* value without a Wildcard subterm, fill_none(value), when it returns,
\* produces that root LocalProjection; on a schema of zero fields it returns
\* the plan as it is.
C16_FillNoneOnPlansWithFields ==
    (op = "fill_none" /\ panic = "" /\ ~has_expr(args.fill_value, IsWildcard)) =>
        IF Len(schema(prev)) >= 1 THEN IsFillOver(plan, prev, args.fill_value)
        ELSE plan = prev

\* C16 witness: three fields filled with a literal
C16_Witness ==
    /\ op = "fill_none"
    /\ panic = ""
    /\ args.fill_value = Two
    /\ Names(schema(prev)) = <<"a", "b", "c">>
    /\ plan.k = "LocalProjection"
    /\ Len(plan.expr) = 3
    /\ plan.expr[3] = Alias(Ternary(IsNull(Column("c")), Two, Column("c")), "c")

(***************************************************************************)
(* Except over anything but a Column, checked under SpecRewrite            *)
(***************************************************************************)
Rewriting == op \in {"rewrite_projections", "project", "project_local", "groupby"}

\* the list the call hands to rewrite_projections
Rewritten == IF op = "groupby" THEN args.aggs ELSE args.exprs

BadExcept(e) == e.k = "Except" /\ e.expr.k # "Column"
BadExcepts(exprs) == {i \in 1..Len(exprs) : BadExcept(exprs[i])}
FirstBadExcept(exprs) == CHOOSE i \in BadExcepts(exprs) : \A j \in BadExcepts(exprs) : i <= j

\* C17 as stated: when a top-level expression of the list is an Except over
\* anything but a Column, the rewrite fails with "Except expression should
\* have column name", wherever the expression stands and whatever the others
\* are, and no Projection, LocalProjection or Aggregate is constructed.
C17_BadExceptIsTheError ==
    (Rewriting /\ BadExcepts(Rewritten) # {}) =>
        /\ panic = ExceptMsg
        /\ plan = Unbuilt

\* C17 amended: the rewrite fails wherever the expression stands and whatever
\* the others are, and no node is constructed; the error is "Except
\* expression should have column name" unless an expression before that
\* Except fails first, which only an expression with a Wildcard subterm does,
\* and then the error is that expression's.
C17_BadExceptFailsTheRewrite ==
    (Rewriting /\ BadExcepts(Rewritten) # {}) =>
        /\ panic # ""
        /\ plan = Unbuilt
        /\ (\A j \in 1..(FirstBadExcept(Rewritten) - 1) :
               rewrite_projections(<<Rewritten[j]>>, schema(prev)).panic = "")
           => panic = ExceptMsg
        /\ (\A j \in 1..(FirstBadExcept(Rewritten) - 1) :
               ~has_expr(Rewritten[j], IsWildcard))
           => panic = ExceptMsg
        /\ panic # ExceptMsg =>
              \E j \in 1..(FirstBadExcept(Rewritten) - 1) :
                 panic = rewrite_projections(<<Rewritten[j]>>, schema(prev)).panic

\* C17 witness: the Except over a Wildcard stands second, after an expression
\* that is fanned out over three fields
C17_Witness ==
    /\ op = "rewrite_projections"
    /\ args.exprs = <<BinaryExpr(Wildcard, "Multiply", Two), Except(Wildcard)>>
    /\ Len(schema(prev)) = 3
    /\ panic = ExceptMsg
    /\ plan = Unbuilt

(***************************************************************************)
(* Filter next to a Wildcard, checked under SpecRewrite                    *)
(***************************************************************************)
Projecting == op \in {"project", "project_local", "groupby", "filter"}

\* the expressions the call projects
Projected == IF op = "filter" THEN <<args.predicate>> ELSE Rewritten

\* C18 as stated: for every expression with a Wildcard subterm and a Filter
\* subterm and every input schema, projecting it with project, project_local,
\* groupby or filter is a hard error and no plan node is produced, wherever
\* the Filter stands relative to the Wildcard.
C18_FilterWithWildcardIsAnError ==
    (/\ Projecting
     /\ \E i \in 1..Len(Projected) :
           has_expr(Projected[i], IsWildcard) /\ has_expr(Projected[i], IsFilter)) =>
        /\ panic # ""
        /\ plan = Unbuilt

\* a Filter that is not under a kept position of e
FilterOutside(e) == \E s \in Range(Outside(e)) : s.k = "Filter"

\* C18 amended: for every expression with a Wildcard subterm, no Agg(Count)
\* subterm and a Filter subterm that is not inside a Window's
\* partition_by/order_by, a Take's idx, a SortBy's by or an Except, and every
\* input schema of at least one field, projecting it with project,
\* project_local, groupby or filter is a hard error and no plan node is
\* produced, wherever the Filter stands relative to the Wildcard.
C18_FilterMetWithWildcardIsAnError ==
    (/\ Projecting
     /\ Len(schema(prev)) >= 1
     /\ \E i \in 1..Len(Projected) :
           /\ has_expr(Projected[i], IsWildcard)
           /\ ~has_expr(Projected[i], IsAggCount)
           /\ FilterOutside(Projected[i])) =>
        /\ panic # ""
        /\ plan = Unbuilt
        /\ Len(Projected) = 1 => panic = FilterWildcardMsg

\* C18 witness: the Filter stands beside the Wildcard, in the other operand of
\* a sum, in a projection over two fields
C18_Witness ==
    /\ op = "project"
    /\ args.exprs = <<BinaryExpr(Wildcard, "Plus", Filter(Column("a"), APositive))>>
    /\ Len(schema(prev)) = 2
    /\ panic = FilterWildcardMsg
    /\ plan = Unbuilt

(***************************************************************************)
(* The failure of melt, checked under SpecMelt                             *)
(***************************************************************************)
HasField(fields, name) == \E i \in 1..Len(fields) : fields[i].name = name

\* C19: for a non-empty value_vars, melt fails, and produces no Melt node,
\* exactly when value_vars[0] is not a field name of the input schema; a later
\* name the schema lacks and value columns of differing dtypes never fail it.
C19_MeltFailsOnFirstValueVarOnly ==
    (op = "melt" /\ Len(args.value_vars) > 0) =>
        IF HasField(schema(prev), args.value_vars[1])
        THEN /\ panic = ""
             /\ plan.k = "Melt"
             /\ plan.input = prev
             /\ plan.value_vars = args.value_vars
        ELSE /\ panic = "field not found"
             /\ plan = Unbuilt

\* C19 witness: the second value variable is no field of the frame, and the
\* Melt node is built
C19_Witness ==
    /\ op = "melt"
    /\ args.value_vars = <<"temp", "zz">>
    /\ Names(schema(prev)) = <<"a", "temp", "b">>
    /\ panic = ""
    /\ plan.k = "Melt"

(***************************************************************************)
(* The header of the DOT rendering, checked under SpecDot                  *)
(***************************************************************************)
Header == "graph  polars_query {\n"
Quoted(label) == "\"" \o label \o "\""
IsScan(p) == p.k \in {"CsvScan", "DataFrameScan", "ParquetScan"}
StartsWith(s, prefix) == Len(s) >= Len(prefix) /\ SubSeq(s, 1, Len(prefix)) = prefix

\* C21 as stated: for every plan tree, whatever the variant of its root, the
\* root call dot(acc, (0,0), "") writes the header line once, as its first
\* output, and then the label of the root as a quoted token on its own; no
\* other node writes the header.
C21_HeaderThenRootLabel ==
    op = "dot" =>
        /\ Len(ret[1].acc_str) >= 2
        /\ ret[1].acc_str[1] = Header
        /\ ret[1].acc_str[2] = Quoted(Rendered[1].label)
        /\ \A i \in 2..Len(ret[1].acc_str) : ret[1].acc_str[i] # Header

\* C21 amended: for every plan tree, whatever the variant of its root, the
\* first thing the root call writes is the header line, it writes it once and
\* it writes it whenever it returns; the header is followed by the label of
\* the root as a quoted token on its own only when the root is a scan, and
\* otherwise by edges only, the first of them from the label of the root; no
\* other node writes the header.
C21_HeaderFirstAndRootLabelOfAScan ==
    op = "dot" =>
        /\ panic = "" => Len(ret[1].acc_str) >= 1
        /\ Len(ret[1].acc_str) >= 1 => ret[1].acc_str[1] = Header
        /\ \A i \in 2..Len(ret[1].acc_str) : ret[1].acc_str[i] # Header
        /\ (IsScan(prev) /\ panic = "") =>
              ret[1].acc_str = <<Header, Quoted(Rendered[1].label)>>
        /\ ~IsScan(prev) =>
              /\ \A i \in 2..Len(ret[1].acc_str) : EndsWith(ret[1].acc_str[i], "\"\n")
              /\ Len(ret[1].acc_str) >= 2 =>
                    StartsWith(ret[1].acc_str[2], Quoted(Rendered[1].label) \o " -- ")
              /\ panic = "" => Len(ret[1].acc_str) = Len(Nodes(prev))

\* C21 witness: a Projection at the root, the header followed by the edge to
\* the scan below it
C21_Witness ==
    /\ op = "dot"
    /\ panic = ""
    /\ prev.k = "Projection"
    /\ Len(ret[1].acc_str) = 2
    /\ ret[1].acc_str[1] = Header
    /\ StartsWith(ret[1].acc_str[2], "\"π 1/3 [(0, 0)]\" -- \"TABLE")

(***************************************************************************)
(* Field names of the cached schemas                                       *)
(***************************************************************************)
DistinctNames(fields) ==
    \A i, j \in 1..Len(fields) : i # j => fields[i].name # fields[j].name

\* C22: when the field names of the input schema are pairwise distinct, so
\* are those of the schema with_columns caches, whatever the expression list,
\* also when two expressions give the same output name and the input has no
\* field of that name.  Checked under SpecHStack.
C22_StackedNamesAreDistinct ==
    (op = "with_columns" /\ panic = "" /\ DistinctNames(schema(prev))) =>
        /\ DistinctNames(plan.schema)
        /\ DistinctNames(schema(plan))

\* C23: when the field names of the left schema and those of the right schema
\* are each pairwise distinct, so are those of the schema join caches,
\* whatever right_on, also when the left schema has a field x_right and the
\* right schema a field x that is no join key and that a left field x
\* collides with.  Checked under SpecJoin.
C23_JoinedNamesAreDistinct ==
    (/\ op = "join"
     /\ panic = ""
     /\ DistinctNames(schema(prev))
     /\ DistinctNames(schema(args.other))) =>
        /\ DistinctNames(plan.schema)
        /\ DistinctNames(schema(plan))

(***************************************************************************)
(* The order of the rewritten list, checked under SpecRewrite              *)
(***************************************************************************)
RECURSIVE IsSubsequence(_, _)
\* s is t with some entries deleted, the others in their order
IsSubsequence(s, t) ==
    IF Len(s) = 0 THEN TRUE
    ELSE IF Len(t) = 0 THEN FALSE
    ELSE IF Head(s) = Head(t) THEN IsSubsequence(Tail(s), Tail(t))
    ELSE IsSubsequence(s, Tail(t))

\* the root column names of a list, in list order
RootsInOrder(exprs) ==
    [i \in 1..Len(exprs) |-> expr_to_root_column_name(exprs[i]).val]

\* C24: the removal of the excluded columns in rewrite_projections keeps the
\* order of the expressions that remain: the list returned is the list
\* emitted before the removal with the removed entries deleted and every
\* other entry in its place relative to the others; [col(*), except(a)] on
\* [a, b, c] gives the roots b, c in that order, and [col(*), except(b)] on
\* [a, b, c, d] the roots a, c, d.
C24_RemovalKeepsTheOrder ==
    (op = "rewrite_projections" /\ panic = "") =>
        /\ IsSubsequence(ret[1].val, emitted(args.exprs, args.schema).result)
        /\ (args.exprs = <<Wildcard, Except(Column("a"))>>
            /\ Names(args.schema) = <<"a", "b", "c">>)
           => RootsInOrder(ret[1].val) = <<"b", "c">>
        /\ (args.exprs = <<Wildcard, Except(Column("b"))>>
            /\ Names(args.schema) = <<"a", "b", "c", "d">>)
           => RootsInOrder(ret[1].val) = <<"a", "c", "d">>

(***************************************************************************)
(* The previous root under the new one, checked under Spec                 *)
(***************************************************************************)
\* the variant each builder operation adds
KindOf(name) ==
    CASE name = "cache"           -> "Cache"
      [] name = "project"         -> "Projection"
      [] name = "project_local"   -> "LocalProjection"
      [] name = "fill_none"       -> "LocalProjection"
      [] name = "with_columns"    -> "HStack"
      [] name = "filter"          -> "Selection"
      [] name = "groupby"         -> "Aggregate"
      [] name = "sort"            -> "Sort"
      [] name = "explode"         -> "Explode"
      [] name = "melt"            -> "Melt"
      [] name = "drop_duplicates" -> "Distinct"
      [] name = "slice"           -> "Slice"
      [] name = "map"             -> "Udf"
      [] name = "join"            -> "Join"

Adding == {"cache", "project", "project_local", "fill_none", "with_columns", "filter",
           "groupby", "sort", "explode", "melt", "drop_duplicates", "slice", "map", "join"}

\* the operations that hand the builder back when their list comes out empty
MayKeep == {"project", "project_local", "fill_none"}

Larger(a, b) == IF a >= b THEN a ELSE b

\* the operation has returned and has added a node
Added == panic = "" /\ op \in Adding /\ ~(op \in MayKeep /\ plan = prev)

\* the new root is of the variant of the operation and the previous root is
\* its child, as it was (the left child of a Join, the other plan the right)
PreviousRootIsChild ==
    /\ plan.k = KindOf(op)
    /\ IF op = "join"
       THEN /\ plan.input_left = prev
            /\ plan.input_right = args.other
            /\ Inputs(plan) = <<prev, args.other>>
       ELSE /\ plan.input = prev
            /\ Inputs(plan) = <<prev>>
    /\ Len(Nodes(plan)) = 1 + Len(Nodes(prev))
                            + (IF op = "join" THEN Len(Nodes(args.other)) ELSE 0)

\* C25 as stated: every builder operation that adds a node makes the previous
\* root the child of the new root and leaves it as it was (for join the left
\* child is the previous root and the right child the other plan), and the
\* depth of the tree grows by one with every node added.
C25_OneLevelPerNode ==
    Added => PreviousRootIsChild /\ Depth(plan) = Depth(prev) + 1

\* C25 amended: the same, the depth growing by one with every node added by an
\* operation other than join; the depth of a join is one more than the larger
\* of the depths of the previous plan and of the other plan.
C25_OneLevelPerNodeButForJoin ==
    Added =>
        /\ PreviousRootIsChild
        /\ op # "join" => Depth(plan) = Depth(prev) + 1
        /\ op = "join" => Depth(plan) = 1 + Larger(Depth(prev), Depth(args.other))

\* C25 witness: a join on top of a filtered frame, the other plan no deeper
C25_Witness ==
    /\ panic = ""
    /\ op = "join"
    /\ prev.k = "Selection"
    /\ plan.input_left = prev
    /\ Depth(args.other) = 2
    /\ Depth(plan) = 3

====
